---- MODULE Spec2Model ----
(***************************************************************************)
(* Model of the live-scores engine: the provider status mapping and the    *)
(* scoreboard / hockey normalizers (src/src/common/fetch.rs,               *)
(* src/src/sport/hockey.rs), the aggregator fetch_scores (src/src/lib.rs)  *)
(* and the TTL cache get_scores_for_sports (src/src/server.rs).            *)
(***************************************************************************)
EXTENDS Integers, Sequences, FiniteSets, TLC

VARIABLES
    cache,       \* server.rs:19  HashMap<Sport, (Instant, Option<Vec<Game>>)>
    lock,        \* server.rs:26  the Mutex around the cache: Free or the holder
    now,         \* the monotonic clock read by Instant::now()
    ticks,       \* number of clock advances so far (bounded by MaxTicks)
    calls,       \* one record per invocation of get_scores_for_sports
    written,     \* history: per sport, the time and fetch result of the last write-back
    hist,        \* history: what the previous and the current sequential call read, fetched and returned
    agg,         \* one invocation of fetch_scores (lib.rs:257)
    st,          \* one application of a from_espn copy to a status code
    norm,        \* one run of a normalizer on a provider document
    conv         \* one application of a conversion (sport tokens, colours)

vars == <<cache, lock, now, ticks, calls, written, hist, agg, st, norm, conv>>

(***************************************************************************)
(* Bounds of the model                                                     *)
(***************************************************************************)
NumCalls == 2
MaxTicks == 2

Calls == 1..NumCalls

(***************************************************************************)
(* Values                                                                  *)
(***************************************************************************)
None == [tag |-> "None", val |-> <<>>]
Some(v) == [tag |-> "Some", val |-> v]

Ok(g) == [kind |-> "Ok", games |-> g, error |-> ""]
Err(e) == [kind |-> "Err", games |-> <<>>, error |-> e]
Panicked(m) == [kind |-> "Panic", games |-> <<>>, error |-> m]
Pending == [kind |-> "Pending", games |-> <<>>, error |-> ""]

Free == 0

EmptyMap == <<>>
MapInsert(m, k, v) == [x \in (DOMAIN m) \cup {k} |-> IF x = k THEN v ELSE m[x]]

Abs(x) == IF x < 0 THEN -x ELSE x

\* Result::unwrap_or / Option::unwrap_or on an optional field
unwrap_or(opt, default) == IF opt.tag = "Some" THEN opt.val ELSE default

\* The seven sports of all_sports(), by their to_string tokens.
all_sports ==
    <<"hockey", "baseball", "golf", "basketball", "college-basketball",
      "football", "college-football">>

(***************************************************************************)
(* Provider status mapping: the copies of from_espn                        *)
(***************************************************************************)
Unknown == "panic: Unknown status"

from_espn(input) ==
    CASE input = "STATUS_IN_PROGRESS" -> "Active"
      [] input \in {"STATUS_FINAL", "STATUS_PLAY_COMPLETE"} -> "End"
      [] input = "STATUS_SCHEDULED" -> "Pregame"
      [] input \in {"STATUS_END_PERIOD", "STATUS_HALFTIME", "STATUS_DELAYED"} -> "Intermission"
      [] input \in {"STATUS_POSTPONED", "STATUS_CANCELED"} -> "Invalid"
      [] OTHER -> Unknown

proto_helpers_from_espn(input) ==
    CASE input = "STATUS_IN_PROGRESS" -> "Active"
      [] input \in {"STATUS_FINAL", "STATUS_PLAY_COMPLETE"} -> "End"
      [] input \in {"STATUS_SCHEDULED", "STATUS_RAIN_DELAY"} -> "Pregame"
      [] input \in {"STATUS_END_PERIOD", "STATUS_HALFTIME", "STATUS_DELAYED"} -> "Intermission"
      [] input \in {"STATUS_POSTPONED", "STATUS_CANCELED"} -> "Invalid"
      [] OTHER -> Unknown

data_from_espn(input) ==
    CASE input = "STATUS_IN_PROGRESS" -> "Active"
      [] input \in {"STATUS_FINAL", "STATUS_PLAY_COMPLETE"} -> "End"
      [] input = "STATUS_SCHEDULED" -> "Pregame"
      [] input \in {"STATUS_END_PERIOD", "STATUS_HALFTIME", "STATUS_DELAYED"} -> "Intermission"
      [] input \in {"STATUS_POSTPONED", "STATUS_CANCELED"} -> "Invalid"
      [] OTHER -> Unknown

lib_from_espn(input) ==
    CASE input = "STATUS_IN_PROGRESS" -> "Active"
      [] input \in {"STATUS_FINAL", "STATUS_PLAY_COMPLETE"} -> "End"
      [] input = "STATUS_SCHEDULED" -> "Pregame"
      [] input \in {"STATUS_END_PERIOD", "STATUS_HALFTIME", "STATUS_DELAYED"} -> "Intermission"
      [] input \in {"STATUS_POSTPONED", "STATUS_CANCELED"} -> "Invalid"
      [] OTHER -> Unknown

golf_from_espn(input) ==
    CASE input = "STATUS_IN_PROGRESS" -> "Active"
      [] input \in {"STATUS_FINAL", "STATUS_PLAY_COMPLETE"} -> "End"
      [] input = "STATUS_SCHEDULED" -> "Pregame"
      [] input \in {"STATUS_END_PERIOD", "STATUS_HALFTIME", "STATUS_DELAYED"} -> "Intermission"
      [] input \in {"STATUS_POSTPONED", "STATUS_CANCELED"} -> "Invalid"
      [] OTHER -> Unknown

(***************************************************************************)
(* Generic scoreboard normalizer (fetch.rs fetch_espn)                     *)
(***************************************************************************)
\* A competitor of a competition, reduced to what the loop reads of it: the
\* id of its team, whether the static table of the sport has that id,
\* whether create_team can synthesize the team from the competitor's own
\* fields, and its score field (None when missing or not a number).  The
\* id is a numeric string unless id_form says it is a native integer.
Competitor(id, in_map, creatable, score) ==
    [id |-> id, in_map |-> in_map, creatable |-> creatable, score |-> score,
     id_form |-> "string"]

HomeCompetitor == Competitor(10, TRUE, TRUE, Some(5))
AwayCompetitor == Competitor(20, TRUE, TRUE, Some(3))

\* An event of the provider's scoreboard document, reduced to the fields the
\* loop reads: the number of competitors of its first competition and the
\* first two of them, the status type name, the signed distance of its start
\* time from now in minutes, the period and the competition id.  date_ok and
\* period_ok say whether "date" is a text of the expected format and whether
\* "period" is an integer.
EventOf(id, name, competitors, delta_min, period, home, away) ==
    [id |-> id, name |-> name, competitors |-> competitors,
     delta_min |-> delta_min, period |-> period, home |-> home, away |-> away,
     date_ok |-> TRUE, period_ok |-> TRUE]

Event(id, name, competitors, delta_min, period) ==
    EventOf(id, name, competitors, delta_min, period, HomeCompetitor, AwayCompetitor)

\* Ordinal(period).to_string()
OrdinalSuffix(n) ==
    IF (n % 100) \in {11, 12, 13} THEN "th"
    ELSE CASE n % 10 = 1 -> "st"
           [] n % 10 = 2 -> "nd"
           [] n % 10 = 3 -> "rd"
           [] OTHER -> "th"

OrdinalString(n) == ToString(n) \o OrdinalSuffix(n)

\* An ordinal that keeps the period word at halftime.
espn_ordinal_no_override(period, status, espn_status) ==
    IF status = "Intermission" THEN OrdinalString(period) \o " INT"
    ELSE OrdinalString(period)

\* fetch.rs:90-97
espn_ordinal(period, status, espn_status) ==
    IF espn_status = "STATUS_HALFTIME" THEN "HALFTIME"
    ELSE IF status = "Intermission" THEN OrdinalString(period) \o " INT"
    ELSE OrdinalString(period)

espn_game(sport, ev, status) ==
    [game_id |-> ev.id, sport |-> sport, home_team |-> None, away_team |-> None,
     home_team_score |-> 0, away_team_score |-> 0, period |-> ev.period,
     status |-> status, ordinal |-> espn_ordinal(ev.period, status, ev.name),
     start_time |-> ev.delta_min, sport_data |-> None]

\* now.signed_duration_since(time).num_hours().abs()
delta_hours(ev) == Abs(ev.delta_min) \div 60

\* The hours an event may be away from now and still be listed (fetch.rs:85).
EspnWindow == 12

\* fetch.rs:84-88
outside_window(ev) == delta_hours(ev) > EspnWindow

\* A loop that leaves no event out for its status.
skips_nothing(status) == FALSE

\* fetch.rs:75-77: an event of status Invalid is left out.
skips_invalid(status) == status = "Invalid"

\* fetch.rs:100-101: get_u64_str takes the id only as a numeric text.
get_u64_str_id(c) ==
    IF c.id_form = "string" THEN Ok(c.id) ELSE Err("id is not a string")

\* team.rs:25-31: create_team takes the id in either form.
create_team_id(c) == Ok(c.id)

\* fetch.rs:99-109: the team of the static table, else a synthesized one.
resolve_team(c) ==
    IF c.in_map THEN Ok([id |-> c.id, synthesized |-> FALSE])
    ELSE IF c.creatable THEN Ok([id |-> create_team_id(c).games, synthesized |-> TRUE])
    ELSE Err("ParseError team")

\* fetch.rs:99-134: teams and scores are read, and each may fail the batch,
\* but the Game is built without them.
espn_event(sport, ev, status) ==
    IF get_u64_str_id(ev.home).kind = "Err" THEN get_u64_str_id(ev.home)
    ELSE IF get_u64_str_id(ev.away).kind = "Err" THEN get_u64_str_id(ev.away)
    ELSE IF resolve_team(ev.home).kind = "Err" THEN resolve_team(ev.home)
    ELSE IF resolve_team(ev.away).kind = "Err" THEN resolve_team(ev.away)
    ELSE IF ev.home.score.tag = "None" \/ ev.away.score.tag = "None"
         THEN Err("ParseError score")
    ELSE Ok(espn_game(sport, ev, status))

\* A loop that decides the skips before it counts the competitors and
\* before it rejects an unrecognized status.
RECURSIVE espn_events_skip_first(_, _, _, _)
espn_events_skip_first(sport, events, i, out_games) ==
    IF i > Len(events) THEN Ok(out_games)
    ELSE LET ev == events[i]
             status == from_espn(ev.name)
         IN  IF skips_invalid(status) \/ (ev.date_ok /\ outside_window(ev))
             THEN espn_events_skip_first(sport, events, i + 1, out_games)
             ELSE IF ev.competitors # 2
             THEN Err("Failed to unwrap home team and away team")
             ELSE IF status = Unknown THEN Panicked(Unknown)
             ELSE IF ~ev.date_ok THEN Err("ParseError date")
             ELSE IF ~ev.period_ok THEN Err("ParseError period")
             ELSE LET g == espn_event(sport, ev, status) IN
                  IF g.kind = "Err" THEN g
                  ELSE espn_events_skip_first(sport, events, i + 1, Append(out_games, g.games))

\* A loop that returns the games it has when an event cannot be read.
RECURSIVE espn_events_partial(_, _, _, _)
espn_events_partial(sport, events, i, out_games) ==
    IF i > Len(events) THEN Ok(out_games)
    ELSE LET ev == events[i] IN
         IF ev.competitors # 2 THEN Ok(out_games)
         ELSE LET status == from_espn(ev.name) IN
              IF status = Unknown THEN Panicked(Unknown)
              ELSE IF skips_invalid(status)
                   THEN espn_events_partial(sport, events, i + 1, out_games)
              ELSE IF ~ev.date_ok THEN Ok(out_games)
              ELSE IF outside_window(ev)
                   THEN espn_events_partial(sport, events, i + 1, out_games)
              ELSE IF ~ev.period_ok THEN Ok(out_games)
              ELSE LET g == espn_event(sport, ev, status) IN
                   IF g.kind = "Err" THEN Ok(out_games)
                   ELSE espn_events_partial(sport, events, i + 1, Append(out_games, g.games))

\* fetch.rs:63-135: the loop over the events.
RECURSIVE espn_events(_, _, _, _)
espn_events(sport, events, i, out_games) ==
    IF i > Len(events) THEN Ok(out_games)
    ELSE LET ev == events[i] IN
         IF ev.competitors # 2 THEN Err("Failed to unwrap home team and away team")
         ELSE LET status == from_espn(ev.name) IN
              IF status = Unknown THEN Panicked(Unknown)
              ELSE IF skips_invalid(status) THEN espn_events(sport, events, i + 1, out_games)
              ELSE IF ~ev.date_ok THEN Err("ParseError date")
              ELSE IF outside_window(ev) THEN espn_events(sport, events, i + 1, out_games)
              ELSE IF ~ev.period_ok THEN Err("ParseError period")
              ELSE LET g == espn_event(sport, ev, status) IN
                   IF g.kind = "Err" THEN g
                   ELSE espn_events(sport, events, i + 1, Append(out_games, g.games))

(***************************************************************************)
(* Golf normalizer (golf.rs process_golf)                                  *)
(* Text is a sequence of one-character strings, so that slices and         *)
(* lengths are those of the bytes of an ASCII string.                      *)
(***************************************************************************)
LowerCase ==
    <<"a", "b", "c", "d", "e", "f", "g", "h", "i", "j", "k", "l", "m",
      "n", "o", "p", "q", "r", "s", "t", "u", "v", "w", "x", "y", "z">>

UpperCase ==
    <<"A", "B", "C", "D", "E", "F", "G", "H", "I", "J", "K", "L", "M",
      "N", "O", "P", "Q", "R", "S", "T", "U", "V", "W", "X", "Y", "Z">>

\* char::to_uppercase on ASCII
upper_char(ch) ==
    IF \E k \in DOMAIN LowerCase : LowerCase[k] = ch
    THEN UpperCase[CHOOSE k \in DOMAIN LowerCase : LowerCase[k] = ch]
    ELSE ch

\* str::to_uppercase
to_uppercase(text) == [k \in DOMAIN text |-> upper_char(text[k])]

\* Itertools::join
RECURSIVE join(_, _)
join(parts, sep) ==
    IF Len(parts) = 0 THEN <<>>
    ELSE IF Len(parts) = 1 THEN parts[1]
    ELSE parts[1] \o sep \o join(Tail(parts), sep)

\* An iterator adaptor that keeps every element.
take_all(seq, n) == seq

\* Iterator::take
take(seq, n) == IF Len(seq) <= n THEN seq ELSE SubSeq(seq, 1, n)

\* The number of players a leaderboard keeps (golf.rs:192, 202, 211).
TopN == 5

\* The length of the slice taken of a name (golf.rs:30, 53).
SliceLen == 5

GolfPlayer(name, display_name, score, position) ==
    [name |-> name, display_name |-> display_name, score |-> score, position |-> position]

\* golf.rs:21-26, 67-72: the first statistic's displayValue, "E" without statistics
latest_score(competitor) == unwrap_or(competitor.stat, <<"E">>)

\* golf.rs:29-32: the first five bytes of every last name of the roster; the
\* slice of a shorter name panics.
RECURSIVE roster_names(_, _, _)
roster_names(roster, i, names) ==
    IF i > Len(roster) THEN Ok(names)
    ELSE IF Len(roster[i]) < SliceLen THEN Panicked("byte index out of range")
    ELSE roster_names(roster, i + 1, Append(names, SubSeq(roster[i], 1, SliceLen)))

\* golf.rs:19-44
from_teamstroke(competitor) ==
    LET names == roster_names(competitor.roster, 1, <<>>) IN
    IF names.kind = "Panic" THEN names
    ELSE IF competitor.position.tag = "None" THEN Err("ParseError position")
    ELSE LET display_name == to_uppercase(join(names.games, <<"/">>)) IN
         Ok(GolfPlayer(display_name, display_name, latest_score(competitor),
                       competitor.position.val))

\* A line of rawData: either the pattern of golf.rs:47 finds no match in it,
\* or it captures the whole match (group 0) and its three groups.
NoMatch == [matched |-> FALSE, cap |-> <<>>]
Captures(whole, first, second, third) ==
    [matched |-> TRUE, cap |-> <<whole, first, second, third>>]

\* golf.rs:45-63: cap[0] is the whole match, cap[1] and cap[2] are the two
\* name groups; a slice past the end of a capture panics.
from_raw_data(line, position) ==
    IF ~line.matched THEN Ok(None)
    ELSE LET player_a == line.cap[1]
             player_b == line.cap[2]
             score == line.cap[3]
         IN  IF Len(player_a) < SliceLen \/ Len(player_b) < SliceLen
             THEN Panicked("byte index out of range")
             ELSE LET display_name == SubSeq(player_a, 1, SliceLen) \o <<"/">>
                                          \o SubSeq(player_b, 1, SliceLen)
                  IN  Ok(Some(GolfPlayer(display_name, display_name, score, position)))

INVALID_NAMES ==
    { <<"J", "R", ".">>, <<"J", "R">>, <<"S", "R", ".">>, <<"S", "R">>,
      <<"I", "I">>, <<"I", "I", "I">>, <<"I", "V">>, <<"V">>, <<"V", "I">> }

\* golf.rs:92-97: the last token of the name that is not a suffix; unwrap
\* panics when every token is one.
RECURSIVE last_valid_token(_, _)
last_valid_token(tokens, i) ==
    IF i < 1 THEN Panicked("unwrap on None")
    ELSE IF tokens[i] \notin INVALID_NAMES THEN Ok(tokens[i])
    ELSE last_valid_token(tokens, i - 1)

\* golf.rs:65-108: displayName is given by its tokens between spaces.
from_competitor(competitor) ==
    LET tokens == [k \in DOMAIN competitor.name |-> to_uppercase(competitor.name[k])]
        last_name == last_valid_token(tokens, Len(tokens))
    IN  IF last_name.kind = "Panic" THEN last_name
        ELSE IF competitor.position.tag = "None" THEN Err("ParseError position")
        ELSE Ok(GolfPlayer(join(tokens, <<" ">>), last_name.games,
                           latest_score(competitor), competitor.position.val))

\* golf.rs:198-200, 207-209: the candidates of a roster branch, in document
\* order; the first failure ends the loop.
RECURSIVE candidates_of(_, _, _, _)
candidates_of(competitors, teamstroke, i, candidates) ==
    IF i > Len(competitors) THEN Ok(candidates)
    ELSE LET p == IF teamstroke THEN from_teamstroke(competitors[i])
                  ELSE from_competitor(competitors[i])
         IN  IF p.kind # "Ok" THEN p
             ELSE candidates_of(competitors, teamstroke, i + 1, Append(candidates, p.games))

\* slice::sort_by(|a, b| a.position.cmp(&b.position)): a stable sort.
RECURSIVE insert_by_position(_, _)
insert_by_position(sorted, p) ==
    IF Len(sorted) = 0 THEN <<p>>
    ELSE IF sorted[Len(sorted)].position <= p.position THEN Append(sorted, p)
    ELSE Append(insert_by_position(SubSeq(sorted, 1, Len(sorted) - 1), p),
                sorted[Len(sorted)])

RECURSIVE sort_by_position(_, _, _)
sort_by_position(candidates, i, sorted) ==
    IF i > Len(candidates) THEN sorted
    ELSE sort_by_position(candidates, i + 1, insert_by_position(sorted, candidates[i]))

\* golf.rs:188-193: enumerate the lines from 0, keep the players of the lines
\* that match, stop after five of them (the lines after the fifth player are
\* not looked at).
RECURSIVE raw_players(_, _, _)
raw_players(lines, i, players) ==
    IF i > Len(lines) \/ Len(players) >= TopN THEN Ok(players)
    ELSE LET p == from_raw_data(lines[i], i - 1) IN
         IF p.kind = "Panic" THEN p
         ELSE IF p.games.tag = "None" THEN raw_players(lines, i + 1, players)
         ELSE raw_players(lines, i + 1, Append(players, p.games.val))

\* A test that finds "COMPLETE" in no text.
contains_nothing(raw_data) == FALSE

\* golf.rs:184: raw_data.contains("COMPLETE")
contains_complete(raw_data) == raw_data.complete

\* golf.rs:182: the branch that reads rawData
is_teamstroke(scoring_system) == scoring_system = "Teamstroke"

\* golf.rs:181-212: the leaderboard and the status after it.
leaderboard(ev, status) ==
    IF is_teamstroke(ev.scoring_system)
    THEN IF ev.raw_data.tag = "Some"
         THEN LET st2 == IF status = "Active" /\ contains_complete(ev.raw_data.val)
                         THEN "End" ELSE status
                  top_5 == raw_players(ev.raw_data.val.lines, 1, <<>>)
              IN  IF top_5.kind # "Ok" THEN top_5
                  ELSE Ok([status |-> st2, players |-> top_5.games])
         ELSE LET candidates == candidates_of(ev.competitors, TRUE, 1, <<>>) IN
              IF candidates.kind # "Ok" THEN candidates
              ELSE Ok([status |-> status,
                       players |-> take(sort_by_position(candidates.games, 1, <<>>), TopN)])
    ELSE LET candidates == candidates_of(ev.competitors, FALSE, 1, <<>>) IN
         IF candidates.kind # "Ok" THEN candidates
         ELSE Ok([status |-> status,
                  players |-> take(sort_by_position(candidates.games, 1, <<>>), TopN)])

\* golf.rs:216-240: the alias table, on the words of the upper-cased name.
NAME_MAP(name) ==
    CASE name = <<"SHRINERS", "CHILDREN'S", "OPEN">> -> <<"SHRINERS", "OPEN">>
      [] name = <<"BUTTERFIELD", "BERMUDA", "CHAMPIONSHIP">> -> <<"BERMUDA", "CHAMP">>
      [] name = <<"WORLD", "WIDE", "TECHNOLOGY", "CHAMPIONSHIP", "AT", "MAYAKOBA">>
            -> <<"WWT", "CHAMP">>
      [] name = <<"FARMERS", "INSURANCE", "OPEN">> -> <<"FARMERS", "OPEN">>
      [] name = <<"SONY", "OPEN", "IN", "HAWAII">> -> <<"SONY", "OPEN">>
      [] name = <<"AT&T", "PEBBLE", "BEACH", "PRO-AM">> -> <<"PEBBLE", "BEACH">>
      [] name = <<"WASTE", "MANAGEMENT", "PHOENIX", "OPEN">> -> <<"WM", "PHOENIX">>
      [] name = <<"CORALES", "PUNTACANA", "CHAMPIONSHIP">> -> <<"PUTACANA", "CHAMP">>
      [] name = <<"VALERO", "TEXAS", "OPEN">> -> <<"VALERO", "OPEN">>
      [] name = <<"RBC", "CANADIAN", "OPEN">> -> <<"RBC", "CANADIAN">>
      [] name = <<"GENESIS", "SCOTTISH", "OPEN">> -> <<"SCOTTISH", "OPEN">>
      [] name = <<"THE", "CJ", "CUP", "IN", "SOUTH", "CAROLINA">> -> <<"CJ", "CUP">>
      [] name = <<"CADENCE", "BANK", "HOUSTON", "OPEN">> -> <<"HOUSTON", "OPEN">>
      [] OTHER -> name

DUMB_WORDS == {"TOURNAMENT", "CHAMPIONSHIP", "CHALLENGE", "CLASSIC", "INVITATIONAL"}

\* golf.rs:214-259: short_name is the upper-cased shortName, by its words.
event_name(short_name) ==
    SelectSeq(NAME_MAP(short_name), LAMBDA word : word \notin DUMB_WORDS)

\* golf.rs:140-157: the earliest tee time of the competitors, else the
\* competition's date; times are minutes from now, positive in the future.
earliest_tee_time(ev) ==
    LET tees == {ev.competitors[k].tee.val :
                    k \in {j \in DOMAIN ev.competitors : ev.competitors[j].tee.tag = "Some"}}
    IN  IF tees = {} THEN ev.date
        ELSE CHOOSE t \in tees : \A u \in tees : t <= u

\* The hours an event may be away from now and still be listed whatever its
\* status (golf.rs:163).
GolfWindow == 24

\* A skip that looks at the age alone.
golf_skips_old_any_status(time, status) == Abs(time) \div 60 > GolfWindow

\* golf.rs:163
golf_skips_old(time, status) ==
    Abs(time) \div 60 > GolfWindow /\ status \notin {"Active", "End"}

\* golf.rs:132-135
golf_skips_invalid(status) == status = "Invalid"

\* golf.rs:124-277: one event; "Skip" stands for continue.
golf_event(ev) ==
    LET mapped == golf_from_espn(ev.name) IN
    IF mapped = Unknown THEN Panicked(Unknown)
    ELSE IF golf_skips_invalid(mapped) THEN [kind |-> "Skip", games |-> <<>>, error |-> ""]
    ELSE IF ev.period.tag = "None" THEN Err("ParseError period")
    ELSE LET time == earliest_tee_time(ev) IN
         IF golf_skips_old(time, mapped) THEN [kind |-> "Skip", games |-> <<>>, error |-> ""]
         ELSE LET status == IF mapped = "Active" /\ time > 0 THEN "End" ELSE mapped
                  board == leaderboard(ev, status)
              IN  IF board.kind # "Ok" THEN board
                  ELSE Ok([game_id |-> ev.id, sport |-> "golf",
                           home_team |-> None, away_team |-> None,
                           home_team_score |-> 0, away_team_score |-> 0,
                           status |-> board.games.status, period |-> 0,
                           ordinal |-> ToString(ev.period.val), start_time |-> time,
                           sport_data |-> Some([event_name |-> event_name(ev.short_name),
                                                players |-> board.games.players])])

RECURSIVE golf_events(_, _, _)
golf_events(events, i, out_games) ==
    IF i > Len(events) THEN Ok(out_games)
    ELSE LET g == golf_event(events[i]) IN
         IF g.kind = "Skip" THEN golf_events(events, i + 1, out_games)
         ELSE IF g.kind # "Ok" THEN g
         ELSE golf_events(events, i + 1, Append(out_games, g.games))

\* golf.rs:121-279
process_golf(events) == golf_events(events, 1, <<>>)

\* fetch.rs:49-136: resp.ok is FALSE when the request, the body or the
\* "events" array fails.
fetch_espn(sport, resp) ==
    IF ~resp.ok THEN Err("FetchError")
    ELSE IF sport = "golf" THEN process_golf(resp.events)
    ELSE espn_events(sport, resp.events, 1, <<>>)

(***************************************************************************)
(* Hockey normalizer (hockey.rs fetch_hockey, fetch.rs fetch_statsapi)     *)
(***************************************************************************)
\* A state machine that tests period >= 1 before period > 1.
hockey_status_swapped(period_time, period, away_score, home_score) ==
    IF period_time = "Final" THEN "End"
    ELSE IF period_time = "END" THEN
        IF period >= 3 /\ away_score # home_score THEN "End" ELSE "Intermission"
    ELSE IF period_time = "20:00" /\ period >= 1 THEN "Active"
    ELSE IF period_time = "20:00" /\ period > 1 THEN "Intermission"
    ELSE "Pregame"

\* A state machine that ends every game whose period 3 or later has ended.
hockey_status_no_tie(period_time, period, away_score, home_score) ==
    IF period_time = "Final" THEN "End"
    ELSE IF period_time = "END" THEN
        IF period >= 3 THEN "End" ELSE "Intermission"
    ELSE IF period_time = "20:00" /\ period > 1 THEN "Intermission"
    ELSE IF period_time = "20:00" /\ period >= 1 THEN "Active"
    ELSE "Pregame"

\* hockey.rs:40-56
hockey_status(period_time, period, away_score, home_score) ==
    IF period_time = "Final" THEN "End"
    ELSE IF period_time = "END" THEN
        IF period >= 3 /\ away_score # home_score THEN "End" ELSE "Intermission"
    ELSE IF period_time = "20:00" /\ period > 1 THEN "Intermission"
    ELSE IF period_time = "20:00" /\ period >= 1 THEN "Active"
    ELSE "Pregame"

hockey_ordinal(period_time, period, away_score, home_score, ordinal) ==
    LET base == IF period >= 1
                THEN unwrap_or(ordinal, "1st")
                ELSE ""
    IN  IF period_time = "Final" THEN base
        ELSE IF period_time = "END" THEN
            IF period >= 3 /\ away_score # home_score THEN base ELSE base \o " INT"
        ELSE IF period_time = "20:00" /\ period > 1 THEN base \o " INT"
        ELSE base

\* hockey.rs:8-72.  A linescore document: ok is FALSE when the request, the
\* body, the teams objects, a powerPlay flag or currentPeriod is missing;
\* skaters is FALSE when a numSkaters field is missing.
fetch_hockey(game, ls) ==
    IF ~ls.ok THEN Err("linescore")
    ELSE LET away_score == unwrap_or(ls.away_goals, 0)
             home_score == unwrap_or(ls.home_goals, 0)
             period_time == unwrap_or(ls.time, "20:00")
         IN  Ok([game EXCEPT
                   !.home_team_score = home_score,
                   !.away_team_score = away_score,
                   !.period = ls.period,
                   !.ordinal = hockey_ordinal(period_time, ls.period, away_score,
                                              home_score, ls.ordinal),
                   !.status = hockey_status(period_time, ls.period, away_score, home_score),
                   !.sport_data = Some("HockeyData")])

statsapi_game(sport, g) ==
    [game_id |-> g.gamePk, sport |-> sport, home_team |-> None, away_team |-> None,
     home_team_score |-> 0, away_team_score |-> 0, period |-> 0,
     status |-> "Active", ordinal |-> "", start_time |-> 0, sport_data |-> None]

\* fetch.rs:149-190: the schedule loop; it builds the games to look up, or
\* fails before any linescore is fetched.
RECURSIVE schedule_games(_, _, _, _)
schedule_games(sport, games, i, out_games) ==
    IF i > Len(games) THEN Ok(out_games)
    ELSE LET g == games[i] IN
         IF g.detailedState.tag = "None" THEN Err("No detailed state present")
         ELSE IF g.detailedState.val = "Postponed"
              THEN schedule_games(sport, games, i + 1, out_games)
         ELSE IF ~g.teams_known THEN Err("team not present")
         ELSE schedule_games(sport, games, i + 1, Append(out_games, statsapi_game(sport, g)))

\* A collection that leaves the failed games out of the list.
RECURSIVE collect_ok_results(_, _, _)
collect_ok_results(results, i, acc) ==
    IF i > Len(results) THEN Ok(acc)
    ELSE IF results[i].kind = "Err" THEN collect_ok_results(results, i + 1, acc)
    ELSE collect_ok_results(results, i + 1, Append(acc, results[i].games))

\* results.into_iter().collect(): the first Err in order, else all the games
RECURSIVE collect_results(_, _, _)
collect_results(results, i, acc) ==
    IF i > Len(results) THEN Ok(acc)
    ELSE IF results[i].kind = "Err" THEN results[i]
    ELSE collect_results(results, i + 1, Append(acc, results[i].games))

RECURSIVE statsapi_games(_, _, _, _)
statsapi_games(sport, games, i, results) ==
    IF i > Len(games) THEN collect_results(results, 1, <<>>)
    ELSE LET g == games[i] IN
         IF g.detailedState.tag = "None" THEN Err("No detailed state present")
         ELSE IF g.detailedState.val = "Postponed" THEN statsapi_games(sport, games, i + 1, results)
         ELSE IF ~g.teams_known THEN Err("team not present")
         ELSE statsapi_games(sport, games, i + 1,
                             Append(results, fetch_hockey(statsapi_game(sport, g), g.linescore)))

\* resp.games are the games of the first entry of "dates".
fetch_statsapi(sport, resp) ==
    IF ~resp.ok THEN Err("FetchError")
    ELSE statsapi_games(sport, resp.games, 1, <<>>)

\* lib.rs:883-899: the state machine of the former fetch_hockey
lib_hockey_status(period_time, period, away_score, home_score) ==
    IF period_time = "Final" THEN "End"
    ELSE IF period_time = "END" THEN
        IF period >= 3 /\ away_score # home_score THEN "End" ELSE "Intermission"
    ELSE IF period_time = "20:00" /\ period > 1 THEN "Intermission"
    ELSE IF period_time = "20:00" /\ period >= 1 THEN "Active"
    ELSE "Pregame"

\* lib.rs:876-895
lib_hockey_ordinal(period_time, period, away_score, home_score, ordinal) ==
    LET base == IF period >= 1
                THEN unwrap_or(ordinal, "1st")
                ELSE ""
    IN  IF period_time = "Final" THEN base
        ELSE IF period_time = "END" THEN
            IF period >= 3 /\ away_score # home_score THEN base ELSE base \o " INT"
        ELSE IF period_time = "20:00" /\ period > 1 THEN base \o " INT"
        ELSE base

\* lib.rs:853-912: as fetch_hockey, but a missing numSkaters fails the game.
lib_fetch_hockey(game, ls) ==
    IF ~ls.ok \/ ~ls.skaters THEN Err("linescore")
    ELSE LET away_score == unwrap_or(ls.away_goals, 0)
             home_score == unwrap_or(ls.home_goals, 0)
             period_time == unwrap_or(ls.time, "20:00")
         IN  Ok([game EXCEPT
                   !.home_team_score = home_score,
                   !.away_team_score = away_score,
                   !.period = ls.period,
                   !.ordinal = lib_hockey_ordinal(period_time, ls.period, away_score,
                                                  home_score, ls.ordinal),
                   !.status = lib_hockey_status(period_time, ls.period, away_score, home_score),
                   !.sport_data = Some("HockeyData")])

\* lib.rs:832-844: the former schedule loop keeps the teams of the table.
lib_statsapi_game(sport, g) ==
    [game_id |-> g.gamePk, sport |-> sport,
     home_team |-> Some("home"), away_team |-> Some("away"),
     home_team_score |-> 0, away_team_score |-> 0, period |-> 0,
     status |-> "Active", ordinal |-> "", start_time |-> 0, sport_data |-> None]

RECURSIVE lib_statsapi_games(_, _, _, _)
lib_statsapi_games(sport, games, i, results) ==
    IF i > Len(games) THEN collect_results(results, 1, <<>>)
    ELSE LET g == games[i] IN
         IF g.detailedState.tag = "None" THEN Err("No detailed state present")
         ELSE IF g.detailedState.val = "Postponed"
              THEN lib_statsapi_games(sport, games, i + 1, results)
         ELSE IF ~g.teams_known THEN Err("team not present")
         ELSE lib_statsapi_games(sport, games, i + 1,
                  Append(results, lib_fetch_hockey(lib_statsapi_game(sport, g), g.linescore)))

\* lib.rs:795-851
lib_fetch_statsapi(sport, resp) ==
    IF ~resp.ok THEN Err("FetchError")
    ELSE lib_statsapi_games(sport, resp.games, 1, <<>>)

(***************************************************************************)
(* Sport tokens (proto_helpers.rs, data.rs)                                *)
(***************************************************************************)
new_sport(sport_type, level) == [sport_type |-> sport_type, level |-> level]

\* proto_helpers.rs:15-25, as Sport values
all_sports_of_proto ==
    { new_sport("Hockey", "Professional"), new_sport("Baseball", "Professional"),
      new_sport("Golf", "Professional"), new_sport("Basketball", "Professional"),
      new_sport("Basketball", "Collegiate"), new_sport("Football", "Professional"),
      new_sport("Football", "Collegiate") }

\* proto_helpers.rs:27-40
to_string(sport) ==
    CASE sport = new_sport("Hockey", "Professional") -> "hockey"
      [] sport = new_sport("Baseball", "Professional") -> "baseball"
      [] sport = new_sport("Golf", "Professional") -> "golf"
      [] sport = new_sport("Basketball", "Professional") -> "basketball"
      [] sport = new_sport("Basketball", "Collegiate") -> "college-basketball"
      [] sport = new_sport("Football", "Professional") -> "football"
      [] sport = new_sport("Football", "Collegiate") -> "college-football"
      [] OTHER -> ""

InvalidSportType(s) == [kind |-> "Err", games |-> <<>>, error |-> <<"InvalidSportType", s>>]

\* A parser that reads the empty text as hockey.
from_str_empty_is_hockey(s) ==
    CASE s = "golf" -> Ok(new_sport("Golf", "Professional"))
      [] s = "baseball" -> Ok(new_sport("Baseball", "Professional"))
      [] s = "hockey" \/ s = "" -> Ok(new_sport("Hockey", "Professional"))
      [] s = "football" -> Ok(new_sport("Football", "Professional"))
      [] s = "college-football" -> Ok(new_sport("Football", "Collegiate"))
      [] s = "basketball" -> Ok(new_sport("Basketball", "Professional"))
      [] s = "college-basketball" -> Ok(new_sport("Basketball", "Collegiate"))
      [] OTHER -> InvalidSportType(s)

\* proto_helpers.rs:42-57
from_str(s) ==
    CASE s = "golf" -> Ok(new_sport("Golf", "Professional"))
      [] s = "baseball" -> Ok(new_sport("Baseball", "Professional"))
      [] s = "hockey" -> Ok(new_sport("Hockey", "Professional"))
      [] s = "football" -> Ok(new_sport("Football", "Professional"))
      [] s = "college-football" -> Ok(new_sport("Football", "Collegiate"))
      [] s = "basketball" -> Ok(new_sport("Basketball", "Professional"))
      [] s = "college-basketball" -> Ok(new_sport("Basketball", "Collegiate"))
      [] OTHER -> InvalidSportType(s)

\* data.rs:24-30: SportType, the level being part of Football and Basketball
NoLevel == "-"
data_sport(variant, level) == [sport_type |-> variant, level |-> level]

\* data.rs:64-79
data_from_str(s) ==
    CASE s = "golf" -> Ok(data_sport("Golf", NoLevel))
      [] s = "baseball" -> Ok(data_sport("Baseball", NoLevel))
      [] s = "hockey" -> Ok(data_sport("Hockey", NoLevel))
      [] s = "football" -> Ok(data_sport("Football", "Professional"))
      [] s = "college-football" -> Ok(data_sport("Football", "College"))
      [] s = "basketball" -> Ok(data_sport("Basketball", "Professional"))
      [] s = "college-basketball" -> Ok(data_sport("Basketball", "College"))
      [] OTHER -> InvalidSportType(s)

\* data.rs:81-93
data_to_string(sport) ==
    CASE sport = data_sport("Golf", NoLevel) -> "golf"
      [] sport = data_sport("Baseball", NoLevel) -> "baseball"
      [] sport = data_sport("Hockey", NoLevel) -> "hockey"
      [] sport = data_sport("Football", "Professional") -> "football"
      [] sport = data_sport("Football", "College") -> "college-football"
      [] sport = data_sport("Basketball", "Professional") -> "basketball"
      [] sport = data_sport("Basketball", "College") -> "college-basketball"

(***************************************************************************)
(* Colours (color.rs)                                                      *)
(***************************************************************************)
\* color.rs:3-10
new_color(r, g, b) == [r |-> r, g |-> g, b |-> b]

\* color.rs:12-14
black == new_color(0, 0, 0)

\* color.rs:16-22
white == new_color(255, 255, 255)

\* char::to_digit(16) on one character; -1 when it is no hexadecimal digit
to_digit(ch) ==
    LET lower == <<"0", "1", "2", "3", "4", "5", "6", "7", "8", "9",
                   "a", "b", "c", "d", "e", "f">>
        upper == <<"0", "1", "2", "3", "4", "5", "6", "7", "8", "9",
                   "A", "B", "C", "D", "E", "F">>
    IN  IF \E i \in DOMAIN lower : lower[i] = ch
        THEN (CHOOSE i \in DOMAIN lower : lower[i] = ch) - 1
        ELSE IF \E i \in DOMAIN upper : upper[i] = ch
        THEN (CHOOSE i \in DOMAIN upper : upper[i] = ch) - 1
        ELSE -1

\* u8::from_str_radix(src, 16) on a slice of two characters: a leading "+"
\* is a sign, every other character must be a digit.
from_str_radix(src) ==
    LET digits == IF src[1] = "+" THEN Tail(src) ELSE src IN
    IF \E i \in DOMAIN digits : to_digit(digits[i]) < 0 THEN Err("ParseIntError")
    ELSE IF Len(digits) = 1 THEN Ok(to_digit(digits[1]))
    ELSE Ok(16 * to_digit(digits[1]) + to_digit(digits[2]))

\* color.rs:24-30: each slice is taken, then parsed, in turn; a slice past
\* the end of the text panics.
get_rgb_from_hex(color) ==
    IF Len(color) < 2 THEN Panicked("byte index out of range")
    ELSE LET red == from_str_radix(SubSeq(color, 1, 2)) IN
    IF red.kind = "Err" THEN red
    ELSE IF Len(color) < 4 THEN Panicked("byte index out of range")
    ELSE LET green == from_str_radix(SubSeq(color, 3, 4)) IN
    IF green.kind = "Err" THEN green
    ELSE IF Len(color) < 6 THEN Panicked("byte index out of range")
    ELSE LET blue == from_str_radix(SubSeq(color, 5, 6)) IN
    IF blue.kind = "Err" THEN blue
    ELSE Ok(new_color(red.games, green.games, blue.games))

\* color.rs:37-46: the values of the closure new_value at c = 0 .. 255, in
\* units of 10^-5, rounded to the nearest unit.
new_value(c) ==
    << 0, 30, 61, 91, 121, 152, 182, 212, 243, 273, 304, 335,
       368, 402, 439, 478, 518, 561, 605, 651, 700, 750, 802, 857,
       913, 972, 1033, 1096, 1161, 1229, 1298, 1370, 1444, 1521, 1600, 1681,
       1764, 1850, 1938, 2029, 2122, 2217, 2315, 2416, 2519, 2624, 2732, 2843,
       2956, 3071, 3190, 3310, 3434, 3560, 3689, 3820, 3955, 4092, 4231, 4374,
       4519, 4667, 4817, 4971, 5127, 5286, 5448, 5613, 5781, 5951, 6125, 6301,
       6480, 6663, 6848, 7036, 7227, 7421, 7619, 7819, 8022, 8228, 8438, 8650,
       8866, 9084, 9306, 9531, 9759, 9990, 10224, 10462, 10702, 10946, 11193, 11444,
       11697, 11954, 12214, 12477, 12744, 13014, 13287, 13563, 13843, 14126, 14413, 14703,
       14996, 15293, 15593, 15896, 16203, 16513, 16827, 17144, 17465, 17789, 18116, 18447,
       18782, 19120, 19462, 19807, 20156, 20508, 20864, 21223, 21586, 21953, 22323, 22697,
       23074, 23455, 23840, 24228, 24620, 25016, 25415, 25818, 26225, 26636, 27050, 27468,
       27889, 28315, 28744, 29177, 29614, 30054, 30499, 30947, 31399, 31855, 32314, 32778,
       33245, 33716, 34191, 34670, 35153, 35640, 36131, 36625, 37124, 37626, 38133, 38643,
       39157, 39676, 40198, 40724, 41254, 41789, 42327, 42869, 43415, 43966, 44520, 45079,
       45641, 46208, 46778, 47353, 47932, 48515, 49102, 49693, 50289, 50888, 51492, 52100,
       52712, 53328, 53948, 54572, 55201, 55834, 56471, 57112, 57758, 58408, 59062, 59720,
       60383, 61050, 61721, 62396, 63076, 63760, 64448, 65141, 65837, 66539, 67244, 67954,
       68669, 69387, 70110, 70838, 71569, 72306, 73046, 73791, 74540, 75294, 76052, 76815,
       77582, 78354, 79130, 79910, 80695, 81485, 82279, 83077, 83880, 84687, 85499, 86316,
       87137, 87962, 88792, 89627, 90466, 91310, 92158, 93011, 93869, 94731, 95597, 96469,
       97345, 98225, 99110, 100000 >>[c + 1]

\* The units of a luminance in one (10^-6) and of a contrast in one (10^-3).
LuminanceOne == 1000000
ContrastOne == 1000

\* color.rs:32-56: the luminance in units of 10^-6; the weights 0.2126,
\* 0.7152, 0.0722 times new_value in units of 10^-5 give units of 10^-9.
get_luminance(color) ==
    (2126 * new_value(color.r) + 7152 * new_value(color.g) + 722 * new_value(color.b))
        \div 1000

\* color.rs:58-66: (max + 0.05) / (min + 0.05), in units of 10^-3
get_contrast(primary, secondary) ==
    LET primary_luminance == get_luminance(primary)
        secondary_luminance == get_luminance(secondary)
        max == IF primary_luminance >= secondary_luminance
               THEN primary_luminance ELSE secondary_luminance
        min == IF primary_luminance >= secondary_luminance
               THEN secondary_luminance ELSE primary_luminance
    IN  ((max + LuminanceOne \div 20) * ContrastOne) \div (min + LuminanceOne \div 20)

\* The threshold 3.5 of color.rs:81, in units of 10^-3.
Legible == 3500

\* A choice that keeps the candidate from a contrast of 2.5 on.
keeps_candidate_lower(contrast) == contrast >= Legible - ContrastOne

\* color.rs:81
keeps_candidate(contrast) == contrast > Legible

\* color.rs:69-88
get_secondary_for_primary(primary, secondary_candidate) ==
    LET p == get_rgb_from_hex(primary) IN
    IF p.kind # "Ok" THEN p
    ELSE LET secondary_color == get_rgb_from_hex(secondary_candidate) IN
    IF secondary_color.kind # "Ok" THEN secondary_color
    ELSE LET contrast == get_contrast(p.games, secondary_color.games)
             white_contrast == get_contrast(p.games, white)
             black_contrast == get_contrast(p.games, black)
         IN  IF keeps_candidate(contrast) THEN secondary_color
             ELSE IF white_contrast > black_contrast THEN Ok(white)
             ELSE Ok(black)

(***************************************************************************)
(* fetch_sport: one sport's unit of work                                   *)
(***************************************************************************)
fetch_sport(sport, resp) ==
    IF sport = "hockey" THEN fetch_statsapi(sport, resp) ELSE fetch_espn(sport, resp)

(***************************************************************************)
(* Upstream: what the providers may answer to one fetch                    *)
(***************************************************************************)
EspnResponses ==
    { [ok |-> FALSE, events |-> <<>>],
      [ok |-> TRUE, events |-> <<Event(1, "STATUS_IN_PROGRESS", 2, 0, 3)>>],
      [ok |-> TRUE, events |-> <<Event(1, "STATUS_FINAL", 2, 0, 9)>>],
      [ok |-> TRUE, events |-> <<Event(1, "STATUS_RAIN_DELAY", 2, 0, 3)>>] }

Linescore(time, period, away, home) ==
    [ok |-> TRUE, away_goals |-> Some(away), home_goals |-> Some(home),
     period |-> period, time |-> Some(time), ordinal |-> Some(OrdinalString(period)),
     skaters |-> TRUE]

ScheduledGame(pk, ls) ==
    [gamePk |-> pk, detailedState |-> Some("Scheduled"), teams_known |-> TRUE, linescore |-> ls]

StatsapiResponses ==
    { [ok |-> FALSE, games |-> <<>>],
      [ok |-> TRUE, games |-> <<ScheduledGame(7, Linescore("12:34", 2, 1, 0))>>],
      [ok |-> TRUE, games |-> <<ScheduledGame(7, Linescore("Final", 3, 2, 1))>>] }

Responses(sport) == IF sport = "hockey" THEN StatsapiResponses ELSE EspnResponses

\* The sport lists a request may carry (server.rs get_sport, get_sports).
Requests ==
    { <<"hockey">>, <<"baseball">>, <<"hockey", "baseball">> }

(***************************************************************************)
(* TTL cache: get_scores_for_sports (server.rs:95-141)                     *)
(***************************************************************************)
TTL == 60

Entry(t, result) == [last_updated |-> t, result |-> result]

\* A freshness test that still counts an entry of age TTL as fresh.
IsFreshInclusive(entry, t) == t - entry.last_updated <= TTL

\* A freshness test with the comparison reversed.
IsFreshReversed(entry, t) == t - entry.last_updated > TTL

\* server.rs:106
IsFresh(entry, t) == t - entry.last_updated < TTL

\* A read loop that refetches a sport whose failure marker is fresh.
RECURSIVE read_loop_no_early_return(_, _, _, _, _, _)
read_loop_no_early_return(c, sports, i, results, futures, t) ==
    IF i > Len(sports)
    THEN [early |-> FALSE, results |-> results, futures |-> futures]
    ELSE LET sport == sports[i] IN
         IF sport \in DOMAIN c /\ IsFresh(c[sport], t) /\ c[sport].result.tag = "Some"
         THEN read_loop_no_early_return(c, sports, i + 1,
                  MapInsert(results, sport, c[sport].result.val), futures, t)
         ELSE read_loop_no_early_return(c, sports, i + 1, results,
                                        Append(futures, sport), t)

\* server.rs:102-119: the read loop, run under the lock at time t.  The
\* futures are created here but not polled: an early return drops them.
RECURSIVE read_loop(_, _, _, _, _, _)
read_loop(c, sports, i, results, futures, t) ==
    IF i > Len(sports)
    THEN [early |-> FALSE, results |-> results, futures |-> futures]
    ELSE LET sport == sports[i] IN
         IF sport \in DOMAIN c
         THEN IF IsFresh(c[sport], t)
              THEN IF c[sport].result.tag = "Some"
                   THEN read_loop(c, sports, i + 1,
                                  MapInsert(results, sport, c[sport].result.val), futures, t)
                   ELSE [early |-> TRUE, results |-> results, futures |-> futures]
              ELSE read_loop(c, sports, i + 1, results, Append(futures, sport), t)
         ELSE read_loop(c, sports, i + 1, results, Append(futures, sport), t)

\* A write-back that leaves the loop at the first failed result.
RECURSIVE write_loop_stop_at_error(_, _, _, _, _, _, _)
write_loop_stop_at_error(c, results, maybe_err, futures, outcomes, i, t) ==
    IF i > Len(futures)
    THEN [cache |-> c, results |-> results, maybe_err |-> maybe_err]
    ELSE LET sport == futures[i]
             result == outcomes[i]
         IN  IF result.kind = "Ok"
             THEN write_loop_stop_at_error(
                      MapInsert(c, sport, Entry(t, Some(result.games))),
                      MapInsert(results, sport, result.games),
                      maybe_err, futures, outcomes, i + 1, t)
             ELSE [cache |-> MapInsert(c, sport, Entry(t, None)),
                   results |-> results, maybe_err |-> TRUE]

\* A write-back that inserts only where the map has no entry yet.
RECURSIVE write_loop_keep_existing(_, _, _, _, _, _, _)
write_loop_keep_existing(c, results, maybe_err, futures, outcomes, i, t) ==
    IF i > Len(futures)
    THEN [cache |-> c, results |-> results, maybe_err |-> maybe_err]
    ELSE LET sport == futures[i]
             result == outcomes[i]
             kept(e) == IF sport \in DOMAIN c THEN c ELSE MapInsert(c, sport, e)
         IN  IF result.kind = "Ok"
             THEN write_loop_keep_existing(
                      kept(Entry(t, Some(result.games))),
                      MapInsert(results, sport, result.games),
                      maybe_err, futures, outcomes, i + 1, t)
             ELSE write_loop_keep_existing(
                      kept(Entry(t, None)),
                      results, TRUE, futures, outcomes, i + 1, t)

\* A write-back that takes a failed sport's entry out of the map.
RECURSIVE write_loop_evict_failed(_, _, _, _, _, _, _)
write_loop_evict_failed(c, results, maybe_err, futures, outcomes, i, t) ==
    IF i > Len(futures)
    THEN [cache |-> c, results |-> results, maybe_err |-> maybe_err]
    ELSE LET sport == futures[i]
             result == outcomes[i]
         IN  IF result.kind = "Ok"
             THEN write_loop_evict_failed(
                      MapInsert(c, sport, Entry(t, Some(result.games))),
                      MapInsert(results, sport, result.games),
                      maybe_err, futures, outcomes, i + 1, t)
             ELSE write_loop_evict_failed(
                      [x \in (DOMAIN c) \ {sport} |-> c[x]],
                      results, TRUE, futures, outcomes, i + 1, t)

\* server.rs:124-136: the write-back loop over the joined results, run under
\* the lock at time t.
RECURSIVE write_loop(_, _, _, _, _, _, _)
write_loop(c, results, maybe_err, futures, outcomes, i, t) ==
    IF i > Len(futures)
    THEN [cache |-> c, results |-> results, maybe_err |-> maybe_err]
    ELSE LET sport == futures[i]
             result == outcomes[i]
         IN  IF result.kind = "Ok"
             THEN write_loop(MapInsert(c, sport, Entry(t, Some(result.games))),
                             MapInsert(results, sport, result.games),
                             maybe_err, futures, outcomes, i + 1, t)
             ELSE write_loop(MapInsert(c, sport, Entry(t, None)),
                             results, TRUE, futures, outcomes, i + 1, t)

\* A join that resolves as soon as one future has resolved.
join_any_ready(outcomes) ==
    outcomes = <<>> \/ \E k \in DOMAIN outcomes : outcomes[k].kind # "Pending"

\* server.rs:122: join_all resolves once every future has resolved.
join_all_ready(outcomes) == \A k \in DOMAIN outcomes : outcomes[k].kind # "Pending"

\* The guard of the read phase kept across the await.
lock_kept_after_read(c) == c

\* server.rs:119: the guard of the read phase is dropped at the end of its block.
lock_after_read(c) == Free

\* server.rs:137-140
return_value(maybe_err) == IF maybe_err THEN "Err" ELSE "Ok"

IdleCall ==
    [pc |-> "idle", sports |-> <<>>, results |-> EmptyMap, futures |-> <<>>,
     outcomes |-> <<>>, ret |-> "none", locks |-> 0]

\* A call that has left the handler: only its return value and the number of
\* times it took the lock are remembered.
Finished(pc, ret, locks) == [IdleCall EXCEPT !.pc = pc, !.ret = ret, !.locks = locks]

Range(f) == {f[k] : k \in DOMAIN f}

\* The result of the call's last fetch of sport s, in the order of the join.
last_result(call, s) ==
    LET ks == {k \in DOMAIN call.futures : call.futures[k] = s}
        k == CHOOSE k \in ks : \A j \in ks : j <= k
    IN  call.outcomes[k]

NotWritten == [at |-> 0, result |-> Pending]

Terminal == {"done", "early", "panicked"}

\* Slot c runs no handler: it never did, or its last handler has ended.
Vacant(c) == calls[c].pc \in Terminal \cup {"idle"}

\* A request arrives and its handler takes the lock (server.rs:99-103).
lock_read(c, sports) ==
    /\ Vacant(c)
    /\ lock = Free
    /\ calls' = [calls EXCEPT ![c] =
                   [IdleCall EXCEPT !.pc = "read", !.sports = sports, !.locks = 1]]
    /\ lock' = c
    /\ UNCHANGED <<cache, now, ticks, written>>

\* server.rs:104-119: read loop, then the guard is dropped; either the early
\* return or the first poll of join_all, which starts every fetch.
read_phase(c) ==
    /\ calls[c].pc = "read"
    /\ lock = c
    /\ LET r == read_loop(cache, calls[c].sports, 1, EmptyMap, <<>>, now) IN
         calls' = [calls EXCEPT ![c] =
            IF r.early
            THEN Finished("early", "Err", @.locks)
            ELSE [@ EXCEPT !.pc = "join", !.results = r.results,
                           !.futures = r.futures,
                           !.outcomes = [k \in DOMAIN r.futures |-> Pending]]]
    /\ lock' = lock_after_read(c)
    /\ UNCHANGED <<cache, now, ticks, written>>

\* One of the call's fetches resolves (server.rs:122, lib.rs:268-273).  A
\* panic inside a fetch unwinds the whole handler: the other futures of the
\* join are dropped and the write-back never runs.
fetch_complete(c, k, resp) ==
    /\ calls[c].pc = "join"
    /\ k \in DOMAIN calls[c].futures
    /\ calls[c].outcomes[k].kind = "Pending"
    /\ LET result == fetch_sport(calls[c].futures[k], resp) IN
         calls' = [calls EXCEPT ![c] =
            IF result.kind = "Panic"
            THEN Finished("panicked", "none", @.locks)
            ELSE [@ EXCEPT !.outcomes[k] = result]]
    /\ UNCHANGED <<cache, lock, now, ticks, written>>

\* server.rs:123: the second lock, taken once join_all has resolved.
lock_write(c) ==
    /\ calls[c].pc = "join"
    /\ join_all_ready(calls[c].outcomes)
    /\ lock = Free
    /\ lock' = c
    /\ calls' = [calls EXCEPT ![c].pc = "write", ![c].locks = @ + 1]
    /\ UNCHANGED <<cache, now, ticks, written>>

\* server.rs:124-140: the write-back loop and the choice of the return value,
\* still under the lock.
write_back(c) ==
    /\ calls[c].pc = "write"
    /\ lock = c
    /\ LET w == write_loop(cache, calls[c].results, FALSE, calls[c].futures,
                           calls[c].outcomes, 1, now) IN
         /\ cache' = w.cache
         /\ calls' = [calls EXCEPT
               ![c].pc = "ret",
               ![c].results = w.results,
               ![c].ret = return_value(w.maybe_err)]
    /\ written' = [s \in DOMAIN written |->
                     IF s \in Range(calls[c].futures)
                     THEN [at |-> now, result |-> last_result(calls[c], s)]
                     ELSE written[s]]
    /\ UNCHANGED <<lock, now, ticks>>

\* server.rs:141: the handler returns and its guard is dropped.
return_call(c) ==
    /\ calls[c].pc = "ret"
    /\ lock = c
    /\ lock' = Free
    /\ calls' = [calls EXCEPT ![c] = Finished("done", @.ret, @.locks)]
    /\ UNCHANGED <<cache, now, ticks, written>>

\* Time passes, half a freshness window at a time; a critical section of the
\* cache takes no time on this scale.
HalfWindow == TTL \div 2

tick ==
    /\ ticks < MaxTicks
    /\ lock = Free
    /\ now' = now + HalfWindow
    /\ ticks' = ticks + 1
    /\ UNCHANGED <<cache, lock, calls, written>>

(***************************************************************************)
(* Spec: NumCalls requests, served concurrently                            *)
(***************************************************************************)
ModelSports == {"hockey", "baseball"}

NoHist == [sports |-> <<>>, nfetch |-> 0, ret |-> "none", results |-> EmptyMap,
           readNow |-> 0, retNow |-> 0]
AggIdle == [pc |-> "off"]
StIdle == [pc |-> "off"]
NormIdle == [pc |-> "off"]
ConvIdle == [pc |-> "off"]

CacheInit ==
    /\ cache = EmptyMap
    /\ lock = Free
    /\ now = 0
    /\ ticks = 0
    /\ calls = [c \in Calls |-> IdleCall]
    /\ written = [s \in ModelSports |-> NotWritten]
    /\ hist = [prev |-> NoHist, cur |-> NoHist]

Init ==
    /\ CacheInit
    /\ agg = AggIdle
    /\ st = StIdle
    /\ norm = NormIdle
    /\ conv = ConvIdle

\* Each slot serves one request; the slots are numbered in the order in which
\* their requests arrive.
LockRead(c) ==
    /\ calls[c].pc = "idle"
    /\ \A b \in Calls : b < c => calls[b].pc # "idle"
    /\ \E sports \in Requests : lock_read(c, sports)
    /\ UNCHANGED <<hist, agg, st, norm, conv>>

ReadPhase(c) == read_phase(c) /\ UNCHANGED <<hist, agg, st, norm, conv>>

FetchComplete(c) ==
    /\ \E k \in DOMAIN calls[c].futures :
         \E resp \in Responses(calls[c].futures[k]) : fetch_complete(c, k, resp)
    /\ UNCHANGED <<hist, agg, st, norm, conv>>

LockWrite(c) == lock_write(c) /\ UNCHANGED <<hist, agg, st, norm, conv>>

WriteBack(c) == write_back(c) /\ UNCHANGED <<hist, agg, st, norm, conv>>

Return(c) == return_call(c) /\ UNCHANGED <<hist, agg, st, norm, conv>>

Tick == tick /\ UNCHANGED <<hist, agg, st, norm, conv>>

Next ==
    \/ \E c \in Calls : LockRead(c)
    \/ \E c \in Calls : ReadPhase(c)
    \/ \E c \in Calls : FetchComplete(c)
    \/ \E c \in Calls : LockWrite(c)
    \/ \E c \in Calls : WriteBack(c)
    \/ \E c \in Calls : Return(c)
    \/ Tick

Spec == Init /\ [][Next]_vars

\* The handlers are tasks of a fair executor: a handler that can take a step
\* takes it, every fetch in flight resolves, and a handler that waits for the
\* lock gets it (the mutex of parking_lot is eventually fair).
Fairness ==
    \A c \in Calls :
        /\ WF_vars(ReadPhase(c))
        /\ WF_vars(FetchComplete(c))
        /\ SF_vars(LockWrite(c))
        /\ WF_vars(WriteBack(c))
        /\ WF_vars(Return(c))

FairSpec == Spec /\ Fairness

(***************************************************************************)
(* NormSpec: one normalizer runs on one provider document                  *)
(***************************************************************************)
NormSports == {"hockey", "baseball", "football", "golf"}

EspnNames ==
    {"STATUS_IN_PROGRESS", "STATUS_FINAL", "STATUS_PLAY_COMPLETE",
     "STATUS_SCHEDULED", "STATUS_END_PERIOD", "STATUS_HALFTIME",
     "STATUS_DELAYED", "STATUS_POSTPONED", "STATUS_CANCELED", "STATUS_RAIN_DELAY"}

\* Start times in minutes from now: now, 12 h 30 min, 13 h, and 13 h ahead.
EspnDeltas == {0, 750, 780, -780}

\* The home competitor: of the static table, synthesized, neither, without
\* a readable score.
HomeCompetitors ==
    { HomeCompetitor,
      Competitor(11, FALSE, TRUE, Some(7)),
      Competitor(12, FALSE, FALSE, Some(7)),
      Competitor(10, TRUE, TRUE, None) }

EspnPeriods == {1, 2, 3, 4, 11, 12, 13, 21, 22, 23}

\* One field of an event made unreadable: the date, the period, the form of
\* the home or of the away team id.
Malformed(ev) ==
    { [ev EXCEPT !.date_ok = FALSE], [ev EXCEPT !.period_ok = FALSE],
      [ev EXCEPT !.home.id_form = "integer"], [ev EXCEPT !.away.id_form = "integer"],
      [ev EXCEPT !.home.id_form = "integer", !.home.in_map = FALSE],
      [ev EXCEPT !.competitors = 3, !.date_ok = FALSE] }

EspnEvents ==
    {EventOf(1, name, 2, delta, 3, home, AwayCompetitor) :
        name \in EspnNames, delta \in EspnDeltas, home \in HomeCompetitors}
    \cup {Event(1, "STATUS_IN_PROGRESS", n, 0, 1) : n \in {1, 3}}
    \cup {Event(1, name, 2, 0, period) :
             name \in {"STATUS_IN_PROGRESS", "STATUS_END_PERIOD", "STATUS_HALFTIME"},
             period \in EspnPeriods}
    \cup UNION {Malformed(Event(1, name, 2, delta, 3)) :
                   name \in {"STATUS_FINAL", "STATUS_CANCELED", "STATUS_RAIN_DELAY"},
                   delta \in {0, 780}}

EspnDocs ==
    { [ok |-> FALSE, events |-> <<>>], [ok |-> TRUE, events |-> <<>>] }
    \cup {[ok |-> TRUE, events |-> <<ev>>] : ev \in EspnEvents}
    \cup {[ok |-> TRUE,
           events |-> <<Event(1, first, 2, 0, 2), Event(2, second, 2, 0, 4)>>] :
             first \in {"STATUS_POSTPONED", "STATUS_HALFTIME"},
             second \in {"STATUS_CANCELED", "STATUS_FINAL"}}
    \cup {[ok |-> TRUE, events |-> <<Event(1, "STATUS_FINAL", 2, 0, 2), second>>] :
             second \in UNION {Malformed(Event(2, name, 2, delta, 4)) :
                                  name \in {"STATUS_FINAL", "STATUS_CANCELED",
                                            "STATUS_RAIN_DELAY"},
                                  delta \in {0, 780}}}

Woods == <<"W", "o", "o", "d", "s">>
Scheffler == <<"S", "c", "h", "e", "f", "f", "l", "e", "r">>
Im == <<"I", "m">>
Jr == <<"J", "r", ".">>
Tiger == <<"T", "i", "g", "e", "r">>
MinusFour == <<"-", "4">>

GolfCompetitor(position, tee, roster, name, stat) ==
    [position |-> position, tee |-> tee, roster |-> roster, name |-> name, stat |-> stat]

\* Seven competitors, listed out of leaderboard order.
Field ==
    [k \in 1..7 |->
        GolfCompetitor(Some(<<3, 1, 7, 2, 6, 5, 4>>[k]),
                       IF k = 2 THEN Some(90) ELSE None,
                       <<Woods, Scheffler>>, <<Tiger, Woods, Jr>>,
                       IF k = 1 THEN None ELSE Some(MinusFour))]

GolfFields ==
    { Field,
      SubSeq(Field, 5, 7),
      <<GolfCompetitor(Some(2), None, <<Woods, Im>>, <<Jr>>, None),
        GolfCompetitor(Some(1), None, <<Woods, Woods>>, <<Tiger, Woods>>, None)>>,
      <<GolfCompetitor(Some(1), Some(-45), <<Woods, Woods>>, <<Tiger, Woods>>, None),
        GolfCompetitor(None, None, <<Woods, Woods>>, <<Tiger, Woods>>, None)>> }

PairLine == Captures(<<" ">> \o Woods \o <<"/">> \o Scheffler \o <<" ">> \o MinusFour,
                     Woods, Scheffler, MinusFour)
ShortLine == Captures(<<" ">> \o Im \o <<"/">> \o Woods \o <<" ">> \o MinusFour,
                      Im, Woods, MinusFour)

RawData(complete, lines) == [complete |-> complete, lines |-> lines]

RawDatas ==
    { None,
      Some(RawData(FALSE, <<NoMatch, PairLine, PairLine, NoMatch, PairLine, PairLine,
                            PairLine, PairLine, ShortLine>>)),
      Some(RawData(TRUE, <<PairLine, PairLine>>)),
      Some(RawData(TRUE, <<ShortLine>>)) }

GolfNames ==
    {"STATUS_IN_PROGRESS", "STATUS_FINAL", "STATUS_SCHEDULED", "STATUS_POSTPONED",
     "STATUS_DELAYED", "STATUS_RAIN_DELAY"}

\* The competition's date in minutes from now: half an hour ago, in half an
\* hour, 25 hours ago, in 24 hours and a half.
GolfDates == {-30, 30, -1500, 1470}

GolfEvent(id, name, period, date, scoring_system, raw_data, competitors, short_name) ==
    [id |-> id, name |-> name, period |-> period, date |-> date,
     scoring_system |-> scoring_system, raw_data |-> raw_data,
     competitors |-> competitors, short_name |-> short_name]

GolfEvents ==
    {GolfEvent(1, name, Some(2), date, system, raw, field, <<"VALERO", "TEXAS", "OPEN">>) :
        name \in GolfNames, date \in GolfDates, system \in {"Teamstroke", "Stroke"},
        raw \in RawDatas, field \in GolfFields}

GolfDocs ==
    { [ok |-> FALSE, events |-> <<>>] }
    \cup {[ok |-> TRUE, events |-> <<ev>>] : ev \in GolfEvents}
    \cup {[ok |-> TRUE,
           events |-> <<GolfEvent(1, "STATUS_CANCELED", Some(1), 0, "Stroke", None, Field,
                                  <<"THE", "MASTERS", "TOURNAMENT">>),
                        GolfEvent(2, "STATUS_IN_PROGRESS", period, 0, "Stroke", None, Field,
                                  <<"THE", "MASTERS", "TOURNAMENT">>)>>] :
             period \in {None, Some(4)}}
    \cup {[ok |-> TRUE,
           events |-> <<GolfEvent(1, "STATUS_IN_PROGRESS", Some(2), 0, "Stroke", None, Field,
                                  <<"THE", "MASTERS", "TOURNAMENT">>),
                        GolfEvent(2, name, None, 0, system, None, field,
                                  <<"THE", "MASTERS", "TOURNAMENT">>)>>] :
             name \in {"STATUS_IN_PROGRESS", "STATUS_CANCELED"},
             system \in {"Teamstroke", "Stroke"}, field \in GolfFields}
    \cup {[ok |-> TRUE,
           events |-> <<GolfEvent(1, "STATUS_IN_PROGRESS", Some(2), 0, "Stroke", None, Field,
                                  <<"THE", "MASTERS", "TOURNAMENT">>),
                        GolfEvent(2, name, Some(3), -1500, system, None, field,
                                  <<"THE", "MASTERS", "TOURNAMENT">>)>>] :
             name \in {"STATUS_IN_PROGRESS", "STATUS_SCHEDULED"},
             system \in {"Teamstroke", "Stroke"}, field \in GolfFields}

HockeyTimes == {Some("Final"), Some("END"), Some("20:00"), Some("12:34"), None}
HockeyPeriods == 0..4
HockeyScores == {<<0, 0>>, <<2, 1>>, <<1, 2>>, <<2, 2>>}

LinescoreOf(time, period, away, home, ordinal) ==
    [ok |-> TRUE, away_goals |-> away, home_goals |-> home,
     period |-> period, time |-> time, ordinal |-> ordinal, skaters |-> TRUE]

Linescores ==
    {LinescoreOf(time, period, Some(score[1]), Some(score[2]), Some(OrdinalString(period))) :
        time \in HockeyTimes, period \in HockeyPeriods, score \in HockeyScores}
    \cup {LinescoreOf(Some("END"), 3, None, Some(1), None),
          [LinescoreOf(Some("END"), 3, None, Some(1), None) EXCEPT !.ok = FALSE],
          [LinescoreOf(Some("20:00"), 1, Some(0), Some(0), Some("1st")) EXCEPT !.skaters = FALSE]}

PostponedGame(pk) ==
    [gamePk |-> pk, detailedState |-> Some("Postponed"), teams_known |-> TRUE,
     linescore |-> LinescoreOf(None, 0, None, None, None)]

HockeyDocs ==
    { [ok |-> FALSE, games |-> <<>>], [ok |-> TRUE, games |-> <<>>] }
    \cup {[ok |-> TRUE, games |-> <<ScheduledGame(7, ls)>>] : ls \in Linescores}
    \cup {[ok |-> TRUE, games |-> <<PostponedGame(5), ScheduledGame(7, ls)>>] :
             ls \in {Linescore("20:00", 2, 0, 0)}}
    \cup {[ok |-> TRUE,
           games |-> <<[ScheduledGame(7, Linescore("END", 1, 0, 0)) EXCEPT !.detailedState = d,
                                                                         !.teams_known = t]>>] :
             d \in {None, Some("In Progress")}, t \in BOOLEAN}

Docs(sport) ==
    CASE sport = "hockey" -> HockeyDocs
      [] sport = "golf" -> GolfDocs
      [] OTHER -> EspnDocs

\* A fetch of the sport is started and the provider answers with a document.
NormFetch(sport, doc) ==
    /\ norm.pc = "off"
    /\ norm' = [pc |-> "fetched", sport |-> sport, doc |-> doc]

\* The normalizer of the sport runs on the document (lib.rs:268-273).
NormRun ==
    /\ norm.pc = "fetched"
    /\ norm' = [pc |-> "done", sport |-> norm.sport, doc |-> norm.doc,
                copy |-> "common", result |-> fetch_sport(norm.sport, norm.doc)]

\* The former hockey normalizer runs on the document (lib.rs:795-912).
NormRunLib ==
    /\ norm.pc = "fetched"
    /\ norm.sport = "hockey"
    /\ norm' = [pc |-> "done", sport |-> norm.sport, doc |-> norm.doc,
                copy |-> "lib", result |-> lib_fetch_statsapi(norm.sport, norm.doc)]

NormFetchAny ==
    /\ \E sport \in NormSports : \E doc \in Docs(sport) : NormFetch(sport, doc)
    /\ UNCHANGED <<cache, lock, now, ticks, calls, written, hist, agg, st, conv>>

NormRunIt ==
    /\ NormRun
    /\ UNCHANGED <<cache, lock, now, ticks, calls, written, hist, agg, st, conv>>

NormRunLibIt ==
    /\ NormRunLib
    /\ UNCHANGED <<cache, lock, now, ticks, calls, written, hist, agg, st, conv>>

NormNext == NormFetchAny \/ NormRunIt \/ NormRunLibIt

NormSpec == Init /\ [][NormNext]_vars

(***************************************************************************)
(* HockeySpec: the two phases of fetch_statsapi, the linescore fetches of  *)
(* a batch resolving in any order                                          *)
(***************************************************************************)
ScheduleDocs ==
    { [ok |-> FALSE, games |-> <<>>],
      [ok |-> TRUE, games |-> <<>>],
      [ok |-> TRUE, games |-> <<PostponedGame(5)>>],
      [ok |-> TRUE, games |-> <<ScheduledGame(7, None)>>],
      [ok |-> TRUE, games |-> <<ScheduledGame(8, None), ScheduledGame(7, None)>>],
      [ok |-> TRUE, games |-> <<ScheduledGame(7, None), PostponedGame(5), ScheduledGame(9, None)>>],
      [ok |-> TRUE, games |-> <<ScheduledGame(9, None), ScheduledGame(7, None),
                                ScheduledGame(8, None)>>],
      [ok |-> TRUE, games |-> <<ScheduledGame(7, None),
                                [ScheduledGame(8, None) EXCEPT !.teams_known = FALSE]>>],
      [ok |-> TRUE, games |-> <<ScheduledGame(7, None),
                                [ScheduledGame(8, None) EXCEPT !.detailedState = None]>>] }

SubLinescores ==
    { Linescore("Final", 3, 2, 1),
      Linescore("20:00", 2, 0, 0),
      [Linescore("END", 1, 0, 0) EXCEPT !.ok = FALSE] }

\* fetch.rs:138-192: the schedule is fetched and read, and join_all starts
\* one fetch_hockey per game to look up.
StatsSchedule(doc) ==
    /\ norm.pc = "off"
    /\ LET out_games == IF doc.ok THEN schedule_games("hockey", doc.games, 1, <<>>)
                        ELSE Err("FetchError")
       IN  IF out_games.kind = "Err"
           THEN norm' = [pc |-> "done", sport |-> "hockey", doc |-> doc, copy |-> "common",
                         out_games |-> <<>>, subs |-> <<>>, result |-> out_games]
           ELSE norm' = [pc |-> "join", sport |-> "hockey", doc |-> doc, copy |-> "common",
                         out_games |-> out_games.games,
                         subs |-> [k \in DOMAIN out_games.games |-> Pending]]

\* hockey.rs:8-72: the linescore fetch of one game resolves.
StatsSubFetch(k, ls) ==
    /\ norm.pc = "join"
    /\ k \in DOMAIN norm.subs
    /\ norm.subs[k] = Pending
    /\ norm' = [norm EXCEPT !.subs[k] = fetch_hockey(norm.out_games[k], ls)]

\* fetch.rs:192-193: join_all has resolved and the results are collected.
StatsCollect ==
    /\ norm.pc = "join"
    /\ join_all_ready(norm.subs)
    /\ norm' = [pc |-> "done", sport |-> "hockey", doc |-> norm.doc, copy |-> "common",
                out_games |-> norm.out_games, subs |-> norm.subs,
                result |-> collect_results(norm.subs, 1, <<>>)]

StatsScheduleAny ==
    /\ \E doc \in ScheduleDocs : StatsSchedule(doc)
    /\ UNCHANGED <<cache, lock, now, ticks, calls, written, hist, agg, st, conv>>

StatsSubFetchAny ==
    /\ norm.pc = "join"
    /\ \E k \in DOMAIN norm.subs : \E ls \in SubLinescores : StatsSubFetch(k, ls)
    /\ UNCHANGED <<cache, lock, now, ticks, calls, written, hist, agg, st, conv>>

StatsCollectAll ==
    /\ StatsCollect
    /\ UNCHANGED <<cache, lock, now, ticks, calls, written, hist, agg, st, conv>>

HockeyNext == StatsScheduleAny \/ StatsSubFetchAny \/ StatsCollectAll

HockeySpec == Init /\ [][HockeyNext]_vars

(***************************************************************************)
(* ConvSpec: one conversion of a sport or of a colour pair                 *)
(***************************************************************************)
SportTypes == {"Hockey", "Baseball", "Golf", "Basketball", "Football"}
Levels == {"Professional", "Collegiate"}

\* Every Sport message a caller can build with new_sport.
ProtoSports == {new_sport(t, l) : t \in SportTypes, l \in Levels}

\* Every value of the enum SportType of data.rs.
DataSports ==
    {data_sport(t, NoLevel) : t \in {"Hockey", "Baseball", "Golf"}}
    \cup {data_sport(t, l) : t \in {"Football", "Basketball"}, l \in {"Professional", "College"}}

\* Texts a request may carry as a sport id.
SportTexts ==
    {all_sports[k] : k \in DOMAIN all_sports}
    \cup {"", "Hockey", "HOCKEY", "hockey ", "nhl", "college", "college-hockey",
          "college_football", "football-college", "soccer"}

ConvCopies == {"proto_helpers", "data"}

to_string_of(copy, sport) ==
    IF copy = "proto_helpers" THEN to_string(sport) ELSE data_to_string(sport)

from_str_of(copy, s) ==
    IF copy = "proto_helpers" THEN from_str(s) ELSE data_from_str(s)

NoSport == [sport_type |-> "", level |-> ""]

\* A sport is written as text (proto_helpers.rs:27-40, data.rs:81-93).
ConvToString(copy, sport) ==
    /\ conv.pc = "off"
    /\ conv' = [pc |-> "text", kind |-> "sport", copy |-> copy, sport |-> sport,
                text |-> to_string_of(copy, sport)]

\* A text arrives in a request (server.rs:43-46).
ConvInput(copy, s) ==
    /\ conv.pc = "off"
    /\ conv' = [pc |-> "text", kind |-> "sport", copy |-> copy, sport |-> NoSport,
                text |-> s]

\* The text is parsed (proto_helpers.rs:42-57, data.rs:64-79).
ConvFromStr ==
    /\ conv.pc = "text"
    /\ conv' = [pc |-> "parsed", kind |-> "sport", copy |-> conv.copy,
                sport |-> conv.sport, text |-> conv.text,
                parsed |-> from_str_of(conv.copy, conv.text)]

ChannelTexts ==
    { <<"0", "0">>, <<"3", "3">>, <<"6", "6">>, <<"9", "9">>, <<"c", "c">>, <<"f", "f">> }

\* The colours of the test of color.rs:96
De3129 == <<"d", "e", "3", "1", "2", "9">>
Grey666 == <<"6", "6", "6", "6", "6", "6">>

PrimaryTexts ==
    {r \o g \o b : r \in ChannelTexts, g \in ChannelTexts, b \in ChannelTexts}
    \cup {De3129, <<"D", "E", "3", "1", "2", "9">>, <<"1", "3", "2", "7", "4", "f">>}

\* Texts that are no colour of six hexadecimal digits.
BadColorTexts ==
    { <<>>, <<"f", "f", "f">>, <<"f", "f", "0", "0">>, <<"z", "z">>,
      <<"z", "z", "0", "0", "0", "0">>, <<"1", "2", "3", "4", "5", "g">>,
      <<"+", "f", "+", "f", "+", "f">>, <<"-", "1", "0", "0", "0", "0">>,
      <<"#", "f", "f", "f", "f", "f", "f">>, <<"f", "f", "f", "f", "f", "f", "0", "0">> }

\* The candidates tried with a primary; create_team passes the primary
\* itself (team.rs:36-39).
CandidateTexts(primary) ==
    {primary, Grey666, De3129,
     <<"0", "0", "0", "0", "0", "0">>, <<"f", "f", "f", "f", "f", "f">>}

\* color.rs:69-72: the call
ColorCall(primary, secondary_candidate) ==
    /\ conv.pc = "off"
    /\ conv' = [pc |-> "called", kind |-> "color", primary |-> primary,
                secondary_candidate |-> secondary_candidate]

\* color.rs:73-88: and its return
ColorReturn ==
    /\ conv.pc = "called"
    /\ conv' = [pc |-> "returned", kind |-> "color", primary |-> conv.primary,
                secondary_candidate |-> conv.secondary_candidate,
                result |-> get_secondary_for_primary(conv.primary, conv.secondary_candidate)]

ConvToStringAny ==
    /\ \/ \E sport \in ProtoSports : ConvToString("proto_helpers", sport)
       \/ \E sport \in DataSports : ConvToString("data", sport)
    /\ UNCHANGED <<cache, lock, now, ticks, calls, written, hist, agg, st, norm>>

ConvInputAny ==
    /\ \E copy \in ConvCopies : \E s \in SportTexts : ConvInput(copy, s)
    /\ UNCHANGED <<cache, lock, now, ticks, calls, written, hist, agg, st, norm>>

ConvFromStrIt ==
    /\ ConvFromStr
    /\ UNCHANGED <<cache, lock, now, ticks, calls, written, hist, agg, st, norm>>

ColorCallAny ==
    /\ \/ \E primary \in PrimaryTexts :
             \E candidate \in CandidateTexts(primary) \cup BadColorTexts :
                ColorCall(primary, candidate)
       \/ \E primary \in BadColorTexts : ColorCall(primary, Grey666)
    /\ UNCHANGED <<cache, lock, now, ticks, calls, written, hist, agg, st, norm>>

ColorReturnIt ==
    /\ ColorReturn
    /\ UNCHANGED <<cache, lock, now, ticks, calls, written, hist, agg, st, norm>>

ConvNext == ConvToStringAny \/ ConvInputAny \/ ConvFromStrIt \/ ColorCallAny \/ ColorReturnIt

ConvSpec == Init /\ [][ConvNext]_vars

(***************************************************************************)
(* AggSpec: the aggregator fetch_scores (lib.rs:257-273)                   *)
(***************************************************************************)
AggSports == {"hockey", "baseball", "football"}

\* lib.rs:260: a HashSet is iterated in an order the caller does not choose.
Orders(sports) ==
    {o \in [1..Cardinality(sports) -> sports] : Range(o) = sports}

\* lib.rs:261-266: the loop over the joined results; `result?` returns the
\* first error met, and with it drops the map built so far.
RECURSIVE fetch_scores_loop(_, _, _, _)
fetch_scores_loop(order, outcomes, i, m) ==
    IF i > Len(order)
    THEN [kind |-> "Ok", m |-> m, error |-> ""]
    ELSE IF outcomes[i].kind = "Ok"
         THEN fetch_scores_loop(order, outcomes, i + 1,
                                MapInsert(m, order[i], outcomes[i].games))
         ELSE [kind |-> "Err", m |-> EmptyMap, error |-> outcomes[i].error]

\* lib.rs:260: fetch_scores is called and join_all starts one fetch_sport
\* per sport of the set.
AggStart(sports, order) ==
    /\ agg.pc = "off"
    /\ agg' = [pc |-> "join", order |-> order,
               outcomes |-> [k \in DOMAIN order |-> Pending]]

\* lib.rs:268-273: one fetch_sport resolves; a panic inside it unwinds
\* fetch_scores.
AggFetchComplete(k, resp) ==
    /\ agg.pc = "join"
    /\ k \in DOMAIN agg.outcomes
    /\ agg.outcomes[k] = Pending
    /\ LET r == fetch_sport(agg.order[k], resp) IN
       IF r.kind = "Panic"
       THEN agg' = [pc |-> "panicked", order |-> agg.order,
                    outcomes |-> [agg.outcomes EXCEPT ![k] = r]]
       ELSE agg' = [agg EXCEPT !.outcomes[k] = r]

\* lib.rs:261-266: join_all has resolved; the results are collected and
\* fetch_scores returns.
AggCollect ==
    /\ agg.pc = "join"
    /\ join_all_ready(agg.outcomes)
    /\ agg' = [pc |-> "done", order |-> agg.order, outcomes |-> agg.outcomes,
               ret |-> fetch_scores_loop(agg.order, agg.outcomes, 1, EmptyMap)]

AggStartAny ==
    /\ \E sports \in SUBSET AggSports : \E order \in Orders(sports) :
          AggStart(sports, order)
    /\ UNCHANGED <<cache, lock, now, ticks, calls, written, hist, st, norm, conv>>

AggFetchCompleteAny ==
    /\ agg.pc = "join"
    /\ \E k \in DOMAIN agg.outcomes : \E resp \in Responses(agg.order[k]) :
          AggFetchComplete(k, resp)
    /\ UNCHANGED <<cache, lock, now, ticks, calls, written, hist, st, norm, conv>>

AggCollectAll ==
    /\ AggCollect
    /\ UNCHANGED <<cache, lock, now, ticks, calls, written, hist, st, norm, conv>>

AggNext == AggStartAny \/ AggFetchCompleteAny \/ AggCollectAll

AggSpec == Init /\ [][AggNext]_vars

(***************************************************************************)
(* StatusSpec: a status code of the provider is mapped by one of the       *)
(* copies of Status::from_espn                                             *)
(***************************************************************************)
StatusCodes ==
    {"STATUS_IN_PROGRESS", "STATUS_FINAL", "STATUS_PLAY_COMPLETE",
     "STATUS_SCHEDULED", "STATUS_END_PERIOD", "STATUS_HALFTIME",
     "STATUS_DELAYED", "STATUS_POSTPONED", "STATUS_CANCELED",
     "STATUS_RAIN_DELAY", "STATUS_SUSPENDED", "status_final", ""}

Copies == {"fetch", "proto_helpers", "golf", "data", "lib"}

from_espn_of(copy, input) ==
    CASE copy = "fetch" -> from_espn(input)
      [] copy = "proto_helpers" -> proto_helpers_from_espn(input)
      [] copy = "golf" -> golf_from_espn(input)
      [] copy = "data" -> data_from_espn(input)
      [] copy = "lib" -> lib_from_espn(input)

\* A status name is read from an event (fetch.rs:73).
StRead(copy, input) ==
    /\ st.pc = "off"
    /\ st' = [pc |-> "read", copy |-> copy, input |-> input]
    /\ UNCHANGED <<cache, lock, now, ticks, calls, written, hist, agg, norm, conv>>

\* The copy maps it (fetch.rs:74).
StMap ==
    /\ st.pc = "read"
    /\ st' = [pc |-> "mapped", copy |-> st.copy, input |-> st.input,
              status |-> from_espn_of(st.copy, st.input)]
    /\ UNCHANGED <<cache, lock, now, ticks, calls, written, hist, agg, norm, conv>>

StReadAny == \E copy \in Copies : \E input \in StatusCodes : StRead(copy, input)

StatusNext == StReadAny \/ StMap

StatusSpec == Init /\ [][StatusNext]_vars

(***************************************************************************)
(* SeqSpec: any number of requests, served one after the other (a request  *)
(* arrives only after the previous handler has ended), with the history    *)
(* of the previous and of the current call                                 *)
(***************************************************************************)
Seq1 == CHOOSE c \in Calls : \A b \in Calls : c <= b

SeqLockRead ==
    /\ \A b \in Calls : Vacant(b)
    /\ \E sports \in Requests : lock_read(Seq1, sports)
    /\ hist' = [prev |-> hist.cur, cur |-> NoHist]
    /\ UNCHANGED <<agg, st, norm, conv>>

SeqReadPhase ==
    /\ read_phase(Seq1)
    /\ hist' = [hist EXCEPT !.cur =
                  [@ EXCEPT !.sports = calls[Seq1].sports,
                            !.readNow = now,
                            !.nfetch = Len(calls'[Seq1].futures),
                            !.ret = calls'[Seq1].ret,
                            !.retNow = now]]
    /\ UNCHANGED <<agg, st, norm, conv>>

SeqFetchComplete ==
    /\ \E k \in DOMAIN calls[Seq1].futures :
         \E resp \in Responses(calls[Seq1].futures[k]) : fetch_complete(Seq1, k, resp)
    /\ hist' = [hist EXCEPT !.cur.ret =
                  IF calls'[Seq1].pc = "panicked" THEN "panic" ELSE @]
    /\ UNCHANGED <<agg, st, norm, conv>>

SeqLockWrite == lock_write(Seq1) /\ UNCHANGED <<hist, agg, st, norm, conv>>

SeqWriteBack == write_back(Seq1) /\ UNCHANGED <<hist, agg, st, norm, conv>>

SeqReturn ==
    /\ return_call(Seq1)
    /\ hist' = [hist EXCEPT !.cur.ret = calls[Seq1].ret,
                            !.cur.results = calls[Seq1].results,
                            !.cur.retNow = now]
    /\ UNCHANGED <<agg, st, norm, conv>>

SeqTick == tick /\ UNCHANGED <<hist, agg, st, norm, conv>>

SeqNext ==
    \/ SeqLockRead
    \/ SeqReadPhase
    \/ SeqFetchComplete
    \/ SeqLockWrite
    \/ SeqWriteBack
    \/ SeqReturn
    \/ SeqTick

SeqSpec == Init /\ [][SeqNext]_vars

(***************************************************************************)
(* Claims about the TTL cache                                              *)
(***************************************************************************)
\* The previous and the current call are two completed gets of the same
\* single sport, the first fetched it successfully, and the second read the
\* cache less than TTL seconds after the first returned.
SequentialPair ==
    /\ calls[Seq1].pc = "done"
    /\ Len(hist.prev.sports) = 1
    /\ hist.cur.sports = hist.prev.sports
    /\ hist.prev.nfetch = 1 /\ hist.prev.ret = "Ok"
    /\ hist.cur.readNow - hist.prev.retNow < TTL

\* C1: cache idempotence.  For two sequential gets of the same single sport,
\* the first one's fetch succeeding and the second one reading the cache less
\* than 60 seconds after the first returned, the two calls issue exactly one
\* upstream fetch in total and return equal game lists.
C1_CacheIdempotence ==
    SequentialPair =>
        /\ hist.prev.nfetch + hist.cur.nfetch = 1
        /\ hist.cur.ret = "Ok"
        /\ hist.cur.results = hist.prev.results

\* Two such calls with some time between them and a non-empty game list.
C1_Witness ==
    /\ SequentialPair
    /\ hist.cur.readNow > hist.prev.retNow
    /\ \E s \in DOMAIN hist.cur.results : Len(hist.cur.results[s]) > 0

\* Steps of one call, recognised by its position before and after.
ReadStep(c) == calls[c].pc = "read" /\ calls'[c].pc # "read"
WriteStep(c) == calls[c].pc = "write" /\ calls'[c].pc = "ret"

\* Sport s has a failure marker, of age less than TTL or not, in the cache.
HasMarker(s) == s \in DOMAIN cache /\ cache[s].result = None
Age(s) == now - cache[s].last_updated
FreshMarker(s) == HasMarker(s) /\ Age(s) < TTL

\* The fetches the step leaves in flight for call c.
IssuedAfter(c) == IF calls'[c].pc = "join" THEN Range(calls'[c].futures) ELSE {}

\* The entry a write-back at the present time stores for a fetch result.
PairOf(result) ==
    [last_updated |-> now,
     result |-> IF result.kind = "Ok" THEN Some(result.games) ELSE None]

SameEntry(s) ==
    /\ (s \in DOMAIN cache') = (s \in DOMAIN cache)
    /\ s \in DOMAIN cache => cache'[s] = cache[s]

\* C2 (as claimed): a get returns an error exactly when a requested sport has
\* a fresh failure marker or one of its refetches fails, and otherwise
\* returns success with a snapshot for every requested sport; in particular
\* every call whose refetch fails ends by returning that error.
C2_ErrorIff ==
    [][\A c \in Calls :
         /\ ReadStep(c) =>
              /\ (calls'[c].ret = "Err") = (\E k \in DOMAIN calls[c].sports :
                                               FreshMarker(calls[c].sports[k]))
              /\ calls'[c].ret # "Err" => calls'[c].pc = "join"
         /\ WriteStep(c) =>
              /\ (calls'[c].ret = "Err") = (\E k \in DOMAIN calls[c].outcomes :
                                               calls[c].outcomes[k].kind # "Ok")
              /\ calls'[c].ret # "Err" =>
                   /\ calls'[c].ret = "Ok"
                   /\ DOMAIN calls'[c].results = Range(calls[c].sports)
         /\ calls'[c].pc \in Terminal => calls'[c].ret \in {"Ok", "Err"}
      ]_vars

\* C3: the write-back of a call replaces the entry of every sport it
\* refetched by (now, Some(games)) or (now, None) according to the fetch
\* result, whatever the call returns, and leaves every other entry as it was.
C3_WriteBack ==
    [][\A c \in Calls : WriteStep(c) =>
         \A s \in ModelSports :
            IF s \in Range(calls[c].futures)
            THEN s \in DOMAIN cache' /\ cache'[s] = PairOf(last_result(calls[c], s))
            ELSE SameEntry(s)
      ]_vars

\* A call that returns an error has stored the healthy sport's games and the
\* failed sport's marker at the same instant.
C3_Witness ==
    \E c \in Calls :
        /\ calls[c].pc = "ret" /\ calls[c].ret = "Err"
        /\ calls[c].futures = <<"hockey", "baseball">>
        /\ calls[c].outcomes[1].kind = "Ok" /\ Len(calls[c].outcomes[1].games) > 0
        /\ cache["hockey"] = Entry(now, Some(calls[c].outcomes[1].games))
        /\ cache["baseball"] = Entry(now, None)

\* C5: under every interleaving each sport's entry is absent when no
\* write-back has stored it, and otherwise is exactly the (time, outcome) pair
\* of the last write-back for that sport.
C5_LastWriteWins ==
    \A s \in ModelSports :
        IF written[s] = NotWritten
        THEN s \notin DOMAIN cache
        ELSE /\ s \in DOMAIN cache
             /\ cache[s].last_updated = written[s].at
             /\ cache[s].result = IF written[s].result.kind = "Ok"
                                  THEN Some(written[s].result.games)
                                  ELSE None

\* Two calls fetched hockey redundantly: one has just written it while the
\* other, which saw it missing or stale, holds a different result to write.
C5_Witness ==
    \E c1, c2 \in Calls :
        /\ c1 # c2
        /\ calls[c1].pc = "ret" /\ "hockey" \in Range(calls[c1].futures)
        /\ calls[c2].pc = "join" /\ calls[c2].futures = <<"hockey">>
        /\ calls[c2].outcomes[1].kind \in {"Ok", "Err"}
        /\ calls[c2].outcomes[1] # written["hockey"].result
        /\ "baseball" \in DOMAIN cache

\* C7 (as claimed): a failure of one sport's fetch, of any kind, ends only
\* that fetch: the call stays in its join until every fetch has resolved, and
\* its write-back stores every successful result.
C7_FailureIsolation ==
    [][\A c \in Calls :
         /\ calls[c].pc = "join" =>
              /\ calls'[c].pc \in {"join", "write"}
              /\ calls'[c].futures = calls[c].futures
              /\ \A k \in DOMAIN calls[c].outcomes :
                    calls[c].outcomes[k].kind # "Pending" =>
                        calls'[c].outcomes[k] = calls[c].outcomes[k]
         /\ WriteStep(c) =>
              \A s \in Range(calls[c].futures) :
                 last_result(calls[c], s).kind = "Ok" =>
                    cache'[s].result = Some(last_result(calls[c], s).games)
      ]_vars

\* The lock is held by a call exactly in its read phase and in its write-back.
LockHeldInPhases == \A c \in Calls : (lock = c) = (calls[c].pc \in {"read", "write", "ret"})

\* C8 (as claimed): the lock is never held by a call whose fetches are in
\* flight, and every call that has returned took it twice, once to read and
\* once to write.
C8_LockTwicePerCall ==
    /\ LockHeldInPhases
    /\ \A c \in Calls : calls[c].pc \in {"done", "early"} => calls[c].locks = 2

\* C8 (amended): the lock is held only in the read phase and in the
\* write-back, never while a fetch of the holder is in flight; a call takes it
\* once to read and, when it reaches its write-back, once more to write.
C8_LockOnlyInPhases ==
    /\ LockHeldInPhases
    /\ \A c \in Calls :
          calls[c].locks = CASE calls[c].pc = "idle" -> 0
                             [] calls[c].pc \in {"read", "join", "early", "panicked"} -> 1
                             [] OTHER -> 2

\* One call waits on the network while another one writes the cache.
C8_Witness ==
    \E c1, c2 \in Calls :
        /\ calls[c1].pc = "join"
        /\ \E k \in DOMAIN calls[c1].outcomes : calls[c1].outcomes[k].kind = "Pending"
        /\ calls[c2].pc = "ret" /\ lock = c2 /\ calls[c2].locks = 2

\* The requested sports whose entry is missing or stale, in request order.
StaleOrMissing(sports) ==
    SelectSeq(sports, LAMBDA s : ~(s \in DOMAIN cache /\ Age(s) < TTL))

\* C9: the refetch set of a call is fixed by the cache state of its read
\* phase and never changes afterwards, and the call takes the write lock and
\* writes only when every one of its refetches has resolved.
C9_ReadThenFetchThenWrite ==
    [][\A c \in Calls :
         /\ ReadStep(c) /\ calls'[c].pc = "join" =>
              calls'[c].futures = StaleOrMissing(calls[c].sports)
         /\ calls[c].pc \in {"join", "write"} /\ calls'[c].pc \in {"join", "write", "ret"} =>
              calls'[c].futures = calls[c].futures
         /\ calls'[c].pc \in {"write", "ret"} =>
              \A k \in DOMAIN calls'[c].outcomes : calls'[c].outcomes[k].kind # "Pending"
         /\ cache' # cache =>
              \E w \in Calls : WriteStep(w) /\
                  \A k \in DOMAIN calls[w].outcomes : calls[w].outcomes[k].kind # "Pending"
      ]_vars

\* The fast sport's result waits, unwritten, for the slow sport's fetch.
C9_Witness ==
    \E c \in Calls :
        /\ calls[c].pc = "join"
        /\ calls[c].futures = <<"hockey", "baseball">>
        /\ calls[c].outcomes[2].kind = "Ok"
        /\ calls[c].outcomes[1].kind = "Pending"
        /\ "baseball" \notin DOMAIN cache

\* C4 (as claimed): a get that reads a failure marker less than TTL seconds
\* after it was written issues no fetch for that sport, and a get that reads
\* it TTL seconds or more after it was written issues a new fetch for it.
C4_FailureRetriedAfterTTL ==
    [][\A c \in Calls : ReadStep(c) =>
         \A k \in DOMAIN calls[c].sports :
            LET s == calls[c].sports[k] IN
            HasMarker(s) =>
               IF Age(s) < TTL THEN s \notin IssuedAfter(c) ELSE s \in IssuedAfter(c)
      ]_vars

\* C4 (amended): a fresh failure marker ends the call with an error and no
\* fetch at all; an expired one gets a new fetch for its sport unless the
\* same call returns early on another requested sport's fresh failure marker.
C4_FailureRetriedUnlessEarly ==
    [][\A c \in Calls : ReadStep(c) =>
         \A k \in DOMAIN calls[c].sports :
            LET s == calls[c].sports[k] IN
            HasMarker(s) =>
               IF Age(s) < TTL
               THEN calls'[c].pc = "early" /\ IssuedAfter(c) = {}
               ELSE \/ s \in IssuedAfter(c)
                    \/ /\ calls'[c].pc = "early"
                       /\ \E j \in DOMAIN calls[c].sports :
                             calls[c].sports[j] # s /\ FreshMarker(calls[c].sports[j])
      ]_vars

\* A failure marker exactly TTL seconds old is being retried.
C4_Witness ==
    /\ calls[Seq1].pc = "join"
    /\ \E s \in Range(calls[Seq1].futures) :
          HasMarker(s) /\ Age(s) = TTL /\ hist.cur.readNow = now

(***************************************************************************)
(* Claims about the aggregator and the status mapping                      *)
(***************************************************************************)
\* C6 (as claimed): when fetch_scores has returned, every requested sport
\* whose fetch succeeded has its game list in the returned value, whatever
\* happened to the other sports' fetches.
C6_AggregatorIsolation ==
    agg.pc = "done" =>
        \A k \in DOMAIN agg.order :
            agg.outcomes[k].kind = "Ok" =>
                /\ agg.ret.kind = "Ok"
                /\ agg.order[k] \in DOMAIN agg.ret.m
                /\ agg.ret.m[agg.order[k]] = agg.outcomes[k].games

\* The status the claimed table gives a code.
ClaimedStatus(input) ==
    CASE input = "STATUS_IN_PROGRESS" -> "Active"
      [] input \in {"STATUS_FINAL", "STATUS_PLAY_COMPLETE"} -> "End"
      [] input = "STATUS_SCHEDULED" -> "Pregame"
      [] input \in {"STATUS_END_PERIOD", "STATUS_HALFTIME", "STATUS_DELAYED"} -> "Intermission"
      [] input \in {"STATUS_POSTPONED", "STATUS_CANCELED"} -> "Invalid"
      [] OTHER -> Unknown

\* C10 (as claimed): every copy of from_espn maps the nine listed codes as
\* the table says and fails hard on every other code, mapping it to no status.
C10_StatusMappingExact ==
    st.pc = "mapped" => st.status = ClaimedStatus(st.input)

(***************************************************************************)
(* Claims about the normalizers                                            *)
(***************************************************************************)
\* The games a finished normalizer run returned (none when it failed).
Returned == IF norm.pc = "done" /\ norm.result.kind = "Ok" THEN norm.result.games ELSE <<>>

\* C11: no Game returned by the generic scoreboard, hockey or golf normalizer
\* has status Invalid: the events whose provider status maps to Invalid are
\* left out of the list and nothing later sets Invalid.
C11_NoInvalidGame ==
    \A k \in DOMAIN Returned : Returned[k].status # "Invalid"

\* A scoreboard of a postponed event and a finished one gave only the
\* finished one.
C11_Witness ==
    /\ norm.pc = "done" /\ norm.sport = "baseball"
    /\ Len(norm.doc.events) = 2
    /\ from_espn(norm.doc.events[1].name) = "Invalid"
    /\ Len(Returned) = 1
    /\ Returned[1].game_id = norm.doc.events[2].id
    /\ Returned[1].status = "End"

\* The one scheduled game of a hockey document and its linescore, when the
\* run returned its Game.
HockeyRun ==
    /\ norm.pc = "done" /\ norm.sport = "hockey"
    /\ Len(Returned) = 1
    /\ Len(norm.doc.games) = 1

HockeyInput == norm.doc.games[1].linescore

\* The status the claimed table gives a linescore.
ClaimedHockeyStatus(time, period, away, home) ==
    CASE time = "Final" -> "End"
      [] time = "END" /\ (period >= 3 /\ away # home) -> "End"
      [] time = "END" /\ ~(period >= 3 /\ away # home) -> "Intermission"
      [] time = "20:00" /\ period > 1 -> "Intermission"
      [] time = "20:00" /\ ~(period > 1) /\ period >= 1 -> "Active"
      [] OTHER -> "Pregame"

\* text ends with " INT"
EndsWithInt(text, base) == text = base \o " INT"

\* C12: for every time-remaining text, period and pair of scores the hockey
\* Game (of fetch_hockey and of its former copy) has the status of the
\* claimed table, and its ordinal is the endpoint's ordinal with " INT"
\* appended exactly when the status is Intermission.
C12_HockeyStateMachine ==
    HockeyRun /\ HockeyInput.time.tag = "Some" =>
        LET ls == HockeyInput
            away == unwrap_or(ls.away_goals, 0)
            home == unwrap_or(ls.home_goals, 0)
            base == IF ls.period >= 1 THEN unwrap_or(ls.ordinal, "1st") ELSE ""
            game == Returned[1]
        IN  /\ game.status = ClaimedHockeyStatus(ls.time.val, ls.period, away, home)
            /\ game.status = "Intermission" => EndsWithInt(game.ordinal, base)
            /\ game.status # "Intermission" => game.ordinal = base

\* Period 3 ended on a tie: Intermission, "3rd INT".
C12_Witness ==
    /\ HockeyRun
    /\ HockeyInput.time = Some("END") /\ HockeyInput.period = 3
    /\ HockeyInput.away_goals = Some(2) /\ HockeyInput.home_goals = Some(2)
    /\ Returned[1].status = "Intermission"
    /\ Returned[1].ordinal = "3rd INT"

\* C13 (as claimed): a linescore with current period 2 and exactly "20:00"
\* remaining gives a Game of status Active.
C13_PeriodTwoActive ==
    HockeyRun /\ HockeyInput.time = Some("20:00") /\ HockeyInput.period = 2 =>
        Returned[1].status = "Active"

\* C13 (amended): a linescore with current period 2 and exactly "20:00"
\* remaining gives a Game of status Intermission with " INT" appended to its
\* ordinal; "20:00" gives Active only with current period 1.
C13_PeriodTwoIntermission ==
    HockeyRun /\ HockeyInput.time = Some("20:00") =>
        /\ HockeyInput.period = 2 =>
              /\ Returned[1].status = "Intermission"
              /\ Returned[1].ordinal = "2nd INT"
        /\ (Returned[1].status = "Active") = (HockeyInput.period = 1)

\* The second period is about to start.
C13_Witness ==
    /\ HockeyRun /\ norm.copy = "common"
    /\ HockeyInput.time = Some("20:00") /\ HockeyInput.period = 2
    /\ Returned[1].status = "Intermission"
    /\ Returned[1].ordinal = "2nd INT"

\* The games of a schedule that are not postponed, in schedule order.
NotPostponed(games) ==
    SelectSeq(games, LAMBDA g : g.detailedState # Some("Postponed"))

\* C14: the linescore fetches of a hockey batch are all started together and
\* all resolve before the batch returns; a batch with a failed linescore
\* fetch returns an error, and a batch whose fetches all succeed returns one
\* Game per scheduled game that is not postponed, in schedule order.
C14_HockeyBatch ==
    [][/\ norm.pc = "off" /\ norm'.pc = "join" =>
            /\ Len(norm'.subs) = Len(NotPostponed(norm'.doc.games))
            /\ \A k \in DOMAIN norm'.subs : norm'.subs[k] = Pending
       /\ norm.pc = "join" =>
            /\ \A k \in DOMAIN norm.subs :
                  norm.subs[k] # Pending => norm'.subs[k] = norm.subs[k]
            /\ norm'.pc = "done" =>
                  /\ \A k \in DOMAIN norm.subs : norm.subs[k] # Pending
                  /\ (\E k \in DOMAIN norm.subs : norm.subs[k].kind = "Err")
                        => norm'.result.kind = "Err"
                  /\ (\A k \in DOMAIN norm.subs : norm.subs[k].kind = "Ok") =>
                        /\ norm'.result.kind = "Ok"
                        /\ Len(norm'.result.games) = Len(NotPostponed(norm.doc.games))
                        /\ \A k \in DOMAIN norm'.result.games :
                              /\ norm'.result.games[k].game_id
                                    = NotPostponed(norm.doc.games)[k].gamePk
                              /\ norm'.result.games[k] = norm.subs[k].games
      ]_vars

\* Of three games the second one's linescore failed: the batch is an error.
C14_Witness ==
    /\ norm.pc = "done" /\ norm.sport = "hockey"
    /\ Len(norm.subs) = 3
    /\ norm.subs[1].kind = "Ok" /\ norm.subs[2].kind = "Err" /\ norm.subs[3].kind = "Ok"
    /\ norm.result.kind = "Err"

\* C15: the home and away team of a returned Game are both present or both
\* absent, and they are absent only in a golf Game.
C15_TeamsPresent ==
    \A k \in DOMAIN Returned :
        /\ (Returned[k].home_team = None) <=> (Returned[k].away_team = None)
        /\ Returned[k].sport # "golf" =>
              Returned[k].home_team # None /\ Returned[k].away_team # None

\* The scoreboard event a returned generic Game was built from.
EventOfGame(g) == CHOOSE ev \in Range(norm.doc.events) : ev.id = g.game_id

GenericRun == norm.pc = "done" /\ norm.sport \in {"baseball", "football", "basketball"}

\* C16: a Game of the generic normalizer carries the home and away scores
\* parsed from its event and the extra data of its sport.
C16_ScoresAndExtraData ==
    GenericRun =>
        \A k \in DOMAIN Returned :
            /\ Returned[k].home_team_score = EventOfGame(Returned[k]).home.score.val
            /\ Returned[k].away_team_score = EventOfGame(Returned[k]).away.score.val
            /\ Returned[k].sport_data # None

GolfRun == norm.pc = "done" /\ norm.sport = "golf"

\* The leaderboard event a returned golf Game was built from.
GolfEventOfGame(g) == CHOOSE ev \in Range(norm.doc.events) : ev.id = g.game_id

\* The event's status maps to Active and its rawData holds "COMPLETE".
ActiveAndComplete(ev) ==
    /\ golf_from_espn(ev.name) = "Active"
    /\ ev.raw_data.tag = "Some"
    /\ ev.raw_data.val.complete

\* C17 as stated: a golf event of mapped status Active whose rawData holds
\* "COMPLETE" gives a Game of status End, whatever the scoring system.
C17_CompleteEndsAnySystem ==
    GolfRun =>
        \A k \in DOMAIN Returned :
            ActiveAndComplete(GolfEventOfGame(Returned[k])) => Returned[k].status = "End"

\* C17: a golf event of mapped status Active, of scoring system Teamstroke,
\* whose rawData holds "COMPLETE" gives a Game of status End.
C17_CompleteEndsTeamstroke ==
    GolfRun =>
        \A k \in DOMAIN Returned :
            LET ev == GolfEventOfGame(Returned[k]) IN
            ActiveAndComplete(ev) /\ ev.scoring_system = "Teamstroke"
                => Returned[k].status = "End"

\* A Teamstroke event in progress, its time not in the future, its rawData
\* holding "COMPLETE", has given a Game of status End.
C17_Witness ==
    /\ GolfRun
    /\ Len(Returned) = 1
    /\ LET ev == GolfEventOfGame(Returned[1]) IN
          /\ ActiveAndComplete(ev)
          /\ ev.scoring_system = "Teamstroke"
          /\ earliest_tee_time(ev) <= 0
    /\ Returned[1].status = "End"

\* The positions of the candidates of the event's leaderboard branch: the
\* indices from 0 of the rawData lines that match, else the positions of
\* the competitors.
RECURSIVE MatchingLines(_, _)
MatchingLines(lines, i) ==
    IF i > Len(lines) THEN <<>>
    ELSE IF lines[i].matched THEN <<i - 1>> \o MatchingLines(lines, i + 1)
    ELSE MatchingLines(lines, i + 1)

CandidatePositions(ev) ==
    IF ev.scoring_system = "Teamstroke" /\ ev.raw_data.tag = "Some"
    THEN MatchingLines(ev.raw_data.val.lines, 1)
    ELSE [k \in DOMAIN ev.competitors |-> ev.competitors[k].position.val]

Count(seq, v) == Cardinality({k \in DOMAIN seq : seq[k] = v})

\* C18: the player list of a golf Game has at most five entries, is sorted
\* by ascending position, and holds the candidates of lowest position of
\* its leaderboard branch.
C18_TopFiveByPosition ==
    GolfRun =>
        \A g \in DOMAIN Returned :
            LET players == Returned[g].sport_data.val.players
                kept == [k \in DOMAIN players |-> players[k].position]
                all == CandidatePositions(GolfEventOfGame(Returned[g]))
            IN  /\ Len(kept) <= 5
                /\ Len(kept) = IF Len(all) < 5 THEN Len(all) ELSE 5
                /\ \A j, k \in DOMAIN kept : j < k => kept[j] <= kept[k]
                /\ \A k \in DOMAIN kept : Count(kept, kept[k]) <= Count(all, kept[k])
                /\ \A c \in DOMAIN all :
                      Count(kept, all[c]) < Count(all, all[c])
                          => \A k \in DOMAIN kept : kept[k] <= all[c]

\* Of seven competitors listed out of order, the five of positions 1 to 5
\* are kept, in that order.
C18_Witness ==
    /\ GolfRun
    /\ Len(Returned) = 1
    /\ GolfEventOfGame(Returned[1]).scoring_system = "Stroke"
    /\ Len(GolfEventOfGame(Returned[1]).competitors) = 7
    /\ LET players == Returned[1].sport_data.val.players IN
          /\ Len(players) = 5
          /\ \A k \in 1..5 : players[k].position = k

SportParsed == conv.pc = "parsed" /\ conv.kind = "sport"

\* The sports that have a token: all_sports() of proto_helpers.rs, and every
\* value of SportType of data.rs.
Canonical(copy) == IF copy = "proto_helpers" THEN all_sports_of_proto ELSE DataSports

\* C19: the text of a canonical sport parses back to that sport, no other
\* canonical sport has the same text, and a text that is none of the seven
\* tokens, the text of a sport that is not canonical included, is refused
\* with InvalidSportType.
C19_SportRoundTrip ==
    SportParsed =>
        /\ conv.sport \in Canonical(conv.copy) =>
              /\ conv.parsed = Ok(conv.sport)
              /\ \A other \in Canonical(conv.copy) :
                    to_string_of(conv.copy, other) = conv.text => other = conv.sport
        /\ conv.text \notin {all_sports[k] : k \in DOMAIN all_sports} =>
              /\ conv.parsed.kind = "Err"
              /\ conv.parsed.error = <<"InvalidSportType", conv.text>>
        /\ Cardinality({to_string_of(conv.copy, sport) : sport \in Canonical(conv.copy)}) = 7

\* The text of collegiate hockey, a sport outside all_sports(), is refused.
C19_Witness ==
    /\ SportParsed
    /\ conv.copy = "proto_helpers"
    /\ conv.sport = new_sport("Hockey", "Collegiate")
    /\ conv.parsed.kind = "Err"

ColorReturned == conv.pc = "returned" /\ conv.kind = "color" /\ conv.result.kind = "Ok"

\* C20: the colour returned for a primary and a candidate is the candidate
\* exactly when the candidate's contrast against the primary is above 3.5;
\* otherwise it is white when white's contrast against the primary is above
\* black's, and black if not. The returned colour's contrast against the
\* primary is above 3.5, and de3129 with 666666 gives white.
C20_SecondaryLegible ==
    ColorReturned =>
        LET primary == get_rgb_from_hex(conv.primary).games
            candidate == get_rgb_from_hex(conv.secondary_candidate).games
            returned == conv.result.games
        IN  /\ returned = candidate <=> get_contrast(primary, candidate) > 3500
            /\ returned # candidate =>
                  IF get_contrast(primary, white) > get_contrast(primary, black)
                  THEN returned = white ELSE returned = black
            /\ get_contrast(primary, returned) > 3500
            /\ conv.primary = De3129 /\ conv.secondary_candidate = Grey666
                  => returned = white

\* The case of the test: de3129 with 666666 has given white.
C20_Witness ==
    /\ ColorReturned
    /\ conv.primary = De3129
    /\ conv.secondary_candidate = Grey666
    /\ get_contrast(new_color(222, 49, 41), new_color(102, 102, 102)) <= 3500
    /\ conv.result.games = white

\* A run of the generic normalizer on a document of one event that has two
\* competitors, a recognized status and every field readable.
OneSoundEvent ==
    /\ GenericRun
    /\ norm.doc.ok
    /\ Len(norm.doc.events) = 1
    /\ LET ev == norm.doc.events[1] IN
          /\ ev.competitors = 2
          /\ from_espn(ev.name) # Unknown
          /\ ev.date_ok /\ ev.period_ok
          /\ ev.home.id_form = "string" /\ ev.away.id_form = "string"
          /\ ev.home.in_map \/ ev.home.creatable
          /\ ev.away.in_map \/ ev.away.creatable
          /\ ev.home.score # None /\ ev.away.score # None

\* C22: the generic normalizer leaves out every event whose start time is
\* more than 12 hours (720 minutes) from now, in either direction, and keeps
\* every event of a status other than Invalid that is within 12 hours.
C22_TwelveHourWindow ==
    OneSoundEvent =>
        LET ev == norm.doc.events[1] IN
        /\ Abs(ev.delta_min) > 720 => Returned = <<>>
        /\ Abs(ev.delta_min) <= 720 /\ from_espn(ev.name) # "Invalid" => Len(Returned) = 1

\* A run of the golf normalizer that returned, on a document of one event.
OneGolfEvent ==
    /\ GolfRun
    /\ norm.result.kind = "Ok"
    /\ Len(norm.doc.events) = 1

\* C23: a golf event that is left out, its status not being Invalid, is more
\* than 24 hours (1440 minutes) from now and of a status that is neither
\* Active nor End; an event of status Active or End is never left out.
C23_GolfAgeSkip ==
    OneGolfEvent =>
        LET ev == norm.doc.events[1]
            mapped == golf_from_espn(ev.name)
            time == earliest_tee_time(ev)
        IN  /\ Returned = <<>> /\ mapped # "Invalid" =>
                  Abs(time) > 1440 /\ mapped \notin {"Active", "End"}
            /\ mapped \in {"Active", "End"} => Len(Returned) = 1

\* An event in progress whose time is 25 hours ago is listed.
C23_Witness ==
    /\ OneGolfEvent
    /\ golf_from_espn(norm.doc.events[1].name) = "Active"
    /\ earliest_tee_time(norm.doc.events[1]) = -1500
    /\ Len(Returned) = 1

\* The ordinal words of the periods.
OrdinalWord(n) ==
    CASE n = 1 -> "1st" [] n = 2 -> "2nd" [] n = 3 -> "3rd" [] n = 4 -> "4th"
      [] n = 11 -> "11th" [] n = 12 -> "12th" [] n = 13 -> "13th"
      [] n = 21 -> "21st" [] n = 22 -> "22nd" [] n = 23 -> "23rd"

\* C24: the ordinal of a Game of the generic normalizer is "HALFTIME" when
\* the status code is STATUS_HALFTIME; otherwise it is the ordinal word of
\* the period, followed by " INT" exactly when the status is Intermission.
C24_GenericOrdinal ==
    GenericRun =>
        \A k \in DOMAIN Returned :
            LET ev == EventOfGame(Returned[k]) IN
            Returned[k].ordinal =
                IF ev.name = "STATUS_HALFTIME" THEN "HALFTIME"
                ELSE IF from_espn(ev.name) = "Intermission"
                     THEN OrdinalWord(ev.period) \o " INT"
                     ELSE OrdinalWord(ev.period)

\* A game at halftime of period 22 has the ordinal "HALFTIME".
C24_Witness ==
    /\ GenericRun
    /\ Len(Returned) = 1
    /\ EventOfGame(Returned[1]).name = "STATUS_HALFTIME"
    /\ EventOfGame(Returned[1]).period = 22
    /\ Returned[1].ordinal = "HALFTIME"

\* A run of the generic normalizer on a document of one event that has two
\* competitors, a recognized status and every field readable, the team ids
\* being integers or numeric texts.
OneEventSoundButIds ==
    /\ GenericRun
    /\ norm.doc.ok
    /\ Len(norm.doc.events) = 1
    /\ LET ev == norm.doc.events[1] IN
          /\ ev.competitors = 2
          /\ from_espn(ev.name) # Unknown
          /\ ev.date_ok /\ ev.period_ok
          /\ ev.home.in_map \/ ev.home.creatable
          /\ ev.away.in_map \/ ev.away.creatable
          /\ ev.home.score # None /\ ev.away.score # None

\* C26: the batch does not fail for the form of a team id: an event whose
\* team ids are native integers or numeric texts is normalized.
C26_TeamIdEitherForm ==
    OneEventSoundButIds => norm.result.kind = "Ok"

\* A run of the golf normalizer on a document of one Teamstroke event
\* without rawData that reaches the leaderboard, every competitor having a
\* position.
OneRosterEvent ==
    /\ GolfRun
    /\ norm.doc.ok
    /\ Len(norm.doc.events) = 1
    /\ LET ev == norm.doc.events[1]
           mapped == golf_from_espn(ev.name)
       IN  /\ ev.scoring_system = "Teamstroke"
           /\ ev.raw_data = None
           /\ mapped \notin {Unknown, "Invalid"}
           /\ ev.period # None
           /\ mapped \in {"Active", "End"} \/ Abs(earliest_tee_time(ev)) <= 1440
           /\ \A k \in DOMAIN ev.competitors : ev.competitors[k].position # None

\* The first five characters of a name, or the whole name when it is shorter.
UpToFive(name) == IF Len(name) < 5 THEN name ELSE SubSeq(name, 1, 5)

RosterName(competitor) ==
    to_uppercase(join([k \in DOMAIN competitor.roster |-> UpToFive(competitor.roster[k])],
                      <<"/">>))

\* C27: in the roster fallback of Teamstroke every last name gives its first
\* five characters, or the whole name when it is shorter, and a shorter name
\* does not make the fetch fail.
C27_ShortLastNames ==
    OneRosterEvent =>
        /\ norm.result.kind = "Ok"
        /\ Len(Returned) = 1
        /\ LET players == Returned[1].sport_data.val.players
               competitors == norm.doc.events[1].competitors
           IN  \A p \in DOMAIN players :
                  \E k \in DOMAIN competitors :
                     /\ competitors[k].position.val = players[p].position
                     /\ players[p].display_name = RosterName(competitors[k])

(***************************************************************************)
(* Further claims about the TTL cache                                      *)
(***************************************************************************)
\* C28: the read phase of a call ends in the early return exactly when a
\* requested sport has a fresh failure marker; the early return leaves the
\* cache as it was, the call has no fetch in flight and starts none
\* afterwards, so the stale or missing sports of its request stay as they were.
C28_EarlyReturnFrame ==
    [][\A c \in Calls :
         /\ ReadStep(c) =>
              /\ (calls'[c].pc = "early")
                    = (\E k \in DOMAIN calls[c].sports : FreshMarker(calls[c].sports[k]))
              /\ calls'[c].pc = "early" =>
                    /\ cache' = cache
                    /\ written' = written
                    /\ calls'[c].futures = <<>>
                    /\ calls'[c].ret = "Err"
         /\ calls[c].pc = "early" =>
              /\ calls'[c].pc \in {"early", "read"}
              /\ cache' = cache
      ]_vars

\* A call for hockey and baseball has returned early on baseball's fresh
\* failure marker; hockey, which was missing, is still missing.
C28_Witness ==
    /\ calls[Seq1].pc = "early"
    /\ hist.cur.sports = <<"hockey", "baseball">>
    /\ hist.cur.nfetch = 0
    /\ "hockey" \notin DOMAIN cache
    /\ FreshMarker("baseball")

\* C29: an entry of the cache is never removed, every cached sport has been
\* written back by a call that refetched it, the time of an entry never
\* decreases, and the time a write-back stores is the time of the write-back.
C29_EntriesPersist ==
    [][/\ \A s \in ModelSports :
            /\ s \in DOMAIN cache => s \in DOMAIN cache'
            /\ s \in DOMAIN cache => cache'[s].last_updated >= cache[s].last_updated
            /\ s \in DOMAIN cache' => written'[s] # NotWritten
            /\ s \in DOMAIN cache' /\ ~SameEntry(s) =>
                  \E w \in Calls : WriteStep(w) /\ s \in Range(calls[w].futures)
       /\ \A c \in Calls : WriteStep(c) =>
            \A s \in Range(calls[c].futures) :
               s \in DOMAIN cache' /\ cache'[s].last_updated = now
      ]_vars

\* The second call has written hockey again, after time has passed, over
\* the entry of the first call.
C29_Witness ==
    \E c1, c2 \in Calls :
        /\ c1 < c2
        /\ calls[c1].pc = "done" /\ calls[c1].ret = "Ok"
        /\ "baseball" \notin DOMAIN cache
        /\ calls[c2].pc = "ret"
        /\ "hockey" \in Range(calls[c2].futures)
        /\ now > 0
        /\ cache["hockey"].last_updated = now

\* Call c runs in its handler.
Running(c) == calls[c].pc \in {"read", "join", "write", "ret"}

\* C25: under fair scheduling, with every fetch resolving, every get call
\* that has started returns.
C25_EveryCallReturns ==
    \A c \in Calls : Running(c) ~> calls[c].pc \in {"done", "early"}

\* Every get call that has started returns or is ended by a panic: the lock
\* stops no call.
C25_EveryCallEnds ==
    \A c \in Calls : Running(c) ~> calls[c].pc \in Terminal

(***************************************************************************)
(* Further claims about the normalizers                                    *)
(***************************************************************************)
\* A run of the generic normalizer on a document of one event.
OneEvent == GenericRun /\ norm.doc.ok /\ Len(norm.doc.events) = 1

Skipped == norm.result = Ok(<<>>)

\* C30: an event without exactly two competitors fails the batch whatever
\* its status and its time; an event of two competitors and an unrecognized
\* status is a hard failure whatever its time; an event of status Invalid is
\* skipped whatever its date, period, team ids and scores, and an event 13
\* hours or more from now whatever its period, team ids and scores.
C30_ValidationOrder ==
    OneEvent =>
        LET ev == norm.doc.events[1]
            status == from_espn(ev.name)
        IN  /\ ev.competitors # 2 => norm.result.kind = "Err"
            /\ ev.competitors = 2 /\ status = Unknown => norm.result.kind = "Panic"
            /\ ev.competitors = 2 /\ status = "Invalid" => Skipped
            /\ ev.competitors = 2 /\ status \notin {Unknown, "Invalid"}
                  /\ ev.date_ok /\ Abs(ev.delta_min) >= 780 => Skipped

\* A cancelled event with three competitors has failed the batch.
C30_Witness ==
    /\ OneEvent
    /\ norm.doc.events[1].competitors = 3
    /\ from_espn(norm.doc.events[1].name) = "Invalid"
    /\ norm.result.kind = "Err"

\* A run of the generic or of the golf normalizer on a document that arrived.
EspnRun == norm.pc = "done" /\ norm.sport # "hockey" /\ norm.doc.ok

\* Some field of the event that a Game needs is missing or of the wrong type.
HasBadField(sport, ev) ==
    IF sport = "golf"
    THEN \/ ev.period.tag = "None"
         \/ \E k \in DOMAIN ev.competitors : ev.competitors[k].position.tag = "None"
    ELSE \/ ev.competitors # 2
         \/ ~ev.date_ok \/ ~ev.period_ok
         \/ ev.home.score.tag = "None" \/ ev.away.score.tag = "None"
         \/ ~(ev.home.in_map \/ ev.home.creatable)
         \/ ~(ev.away.in_map \/ ev.away.creatable)

\* C21 as stated: a response with an event that has a missing or wrongly
\* typed field gives an error and no games.
C21_AnyBadFieldFailsBatch ==
    EspnRun /\ (\E k \in DOMAIN norm.doc.events :
                    HasBadField(norm.sport, norm.doc.events[k]))
        => norm.result.kind = "Err" /\ norm.result.games = <<>>

\* The fields after the skips of the generic loop are all readable.
AllReadable(ev) ==
    /\ ev.period_ok
    /\ ev.home.id_form = "string" /\ ev.away.id_form = "string"
    /\ ev.home.in_map \/ ev.home.creatable
    /\ ev.away.in_map \/ ev.away.creatable
    /\ ev.home.score.tag = "Some" /\ ev.away.score.tag = "Some"

EspnFar(ev) == Abs(ev.delta_min) \div 60 > 12

\* The generic loop goes through the event, skipping it or listing it.
EspnPasses(ev) ==
    /\ ev.competitors = 2
    /\ from_espn(ev.name) # Unknown
    /\ \/ from_espn(ev.name) = "Invalid"
       \/ ev.date_ok /\ (EspnFar(ev) \/ AllReadable(ev))

\* The generic loop reads a field of the event that is missing or of the
\* wrong type.
EspnReadsBad(ev) ==
    \/ ev.competitors # 2
    \/ /\ from_espn(ev.name) \notin {Unknown, "Invalid"}
       /\ ~ev.date_ok \/ (~EspnFar(ev) /\ ~AllReadable(ev))

\* The names of the competitor can be cut as its branch cuts them.
GolfSound(c, teamstroke) ==
    IF teamstroke THEN \A k \in DOMAIN c.roster : Len(c.roster[k]) >= 5
    ELSE \E k \in DOMAIN c.name : to_uppercase(c.name[k]) \notin INVALID_NAMES

RosterBranch(ev) == ~(ev.scoring_system = "Teamstroke" /\ ev.raw_data.tag = "Some")

GolfFar(ev) ==
    /\ Abs(earliest_tee_time(ev)) \div 60 > 24
    /\ golf_from_espn(ev.name) \notin {"Active", "End"}

\* The golf loop goes through the event, skipping it or listing it from its
\* competitors.
GolfPasses(ev) ==
    /\ golf_from_espn(ev.name) # Unknown
    /\ \/ golf_from_espn(ev.name) = "Invalid"
       \/ /\ ev.period.tag = "Some"
          /\ \/ GolfFar(ev)
             \/ /\ RosterBranch(ev)
                /\ \A k \in DOMAIN ev.competitors :
                      /\ GolfSound(ev.competitors[k], ev.scoring_system = "Teamstroke")
                      /\ ev.competitors[k].position.tag = "Some"

\* The golf loop reads a field of the event that is missing.
GolfReadsBad(ev) ==
    /\ golf_from_espn(ev.name) \notin {Unknown, "Invalid"}
    /\ \/ ev.period.tag = "None"
       \/ /\ ~GolfFar(ev)
          /\ RosterBranch(ev)
          /\ \E k \in DOMAIN ev.competitors :
                /\ ev.competitors[k].position.tag = "None"
                /\ \A j \in 1..k :
                      GolfSound(ev.competitors[j], ev.scoring_system = "Teamstroke")
                /\ \A j \in 1..(k - 1) : ev.competitors[j].position.tag = "Some"

Passes(sport, ev) == IF sport = "golf" THEN GolfPasses(ev) ELSE EspnPasses(ev)
ReadsBad(sport, ev) == IF sport = "golf" THEN GolfReadsBad(ev) ELSE EspnReadsBad(ev)

\* C21: a response in which the loop reads a missing or wrongly typed field
\* of an event gives an error and no games, whatever the events before it
\* gave; what is not a list of games carries no games.
C21_ReadFailureFailsBatch ==
    EspnRun =>
        /\ (\E k \in DOMAIN norm.doc.events :
               /\ \A j \in 1..(k - 1) : Passes(norm.sport, norm.doc.events[j])
               /\ ReadsBad(norm.sport, norm.doc.events[k]))
              => (norm.result.kind = "Err" /\ norm.result.games = <<>>)
        /\ (norm.result.kind # "Ok" => norm.result.games = <<>>)

\* The first event would have been listed; the second one's period cannot
\* be read, and the fetch is an error.
C21_Witness ==
    /\ EspnRun
    /\ norm.sport = "baseball"
    /\ Len(norm.doc.events) = 2
    /\ EspnPasses(norm.doc.events[1])
    /\ from_espn(norm.doc.events[1].name) = "End"
    /\ ~norm.doc.events[2].period_ok
    /\ EspnReadsBad(norm.doc.events[2])
    /\ norm.result.kind = "Err" /\ norm.result.games = <<>>

====
